---------------------------- MODULE Spec2Model ----------------------------
(***************************************************************************)
(* Valuation and scoring engine of Value-Investing-Agent: margin of safety *)
(* (src/src/analysis/margin-of-safety.ts), economic moat                   *)
(* (src/src/analysis/moat-scorer.ts), financial ratios                     *)
(* (src/src/analysis/ratios.ts) and the DCF model                          *)
(* (src/src/analysis/dcf.ts).                                              *)
(*                                                                         *)
(* The engine's functions are pure.  Each specification below draws the    *)
(* arguments of one invocation in its initial states (phase "called") and  *)
(* has one action per engine function, which applies the function and      *)
(* stores what it returns (phase "returned").                              *)
(*                                                                         *)
(* Numbers.  A JavaScript number is modelled by an exact rational          *)
(* [n |-> numerator, d |-> denominator] in lowest terms with d > 0; the    *)
(* record with d = 0 stands for null / undefined.  Rounding of IEEE        *)
(* doubles is not modelled: every arithmetic operator is exact.            *)
(***************************************************************************)
EXTENDS Integers, Sequences, FiniteSets, TLC

VARIABLES phase, args, ret, last

vars == <<phase, args, ret, last>>

---------------------------------------------------------------------------
(* Exact rational arithmetic on machine integers.                          *)

Abs(x) == IF x < 0 THEN -x ELSE x

RECURSIVE GCD(_, _)
GCD(a, b) == IF b = 0 THEN a ELSE GCD(b, a % b)

Rat(n, d) ==
  LET g == GCD(Abs(n), Abs(d))
      s == IF d < 0 THEN -1 ELSE 1
  IN  [n |-> s * (n \div g), d |-> s * (d \div g)]

Int2Rat(i) == [n |-> i, d |-> 1]

Null == [n |-> 0, d |-> 0]

IsNull(x) == x.d = 0

Zero == Int2Rat(0)

One == Int2Rat(1)

RAdd(a, b) == Rat(a.n * b.d + b.n * a.d, a.d * b.d)

RSub(a, b) == Rat(a.n * b.d - b.n * a.d, a.d * b.d)

RMul(a, b) == Rat(a.n * b.n, a.d * b.d)

RDiv(a, b) == Rat(a.n * b.d, a.d * b.n)

RLe(a, b) == a.n * b.d <= b.n * a.d

RLt(a, b) == a.n * b.d < b.n * a.d

RGe(a, b) == RLe(b, a)

RGt(a, b) == RLt(b, a)

RMin(a, b) == IF RLe(a, b) THEN a ELSE b

RMax(a, b) == IF RLe(a, b) THEN b ELSE a

RECURSIVE SeqSum(_)
SeqSum(s) == IF s = <<>> THEN Zero ELSE RAdd(Head(s), SeqSum(Tail(s)))

RECURSIVE SeqMin(_)
SeqMin(s) == IF Len(s) = 1 THEN s[1] ELSE RMin(s[1], SeqMin(Tail(s)))

RECURSIVE SeqMax(_)
SeqMax(s) == IF Len(s) = 1 THEN s[1] ELSE RMax(s[1], SeqMax(Tail(s)))

---------------------------------------------------------------------------
(* config/defaults.ts: VALUE_INVESTING_THRESHOLDS.marginOfSafety           *)

MosMinimum == Rat(25, 100)

\* Mutant of MosGood: the "good" threshold mistyped as 30%.
MosGood_Thirty == Rat(30, 100)

MosGood == Rat(35, 100)

MosExcellent == Rat(50, 100)

---------------------------------------------------------------------------
(* analysis/margin-of-safety.ts                                            *)

RecInvalid == "Unable to calculate - invalid values"

RecExcellent == "Significantly undervalued with excellent margin of safety. Verify there are no fundamental problems causing the low price."

RecGood == "Undervalued with good margin of safety. Consider for purchase if fundamentals are strong."

RecAcceptable == "Moderately undervalued with acceptable margin of safety. May be suitable for patient investors."

RecFair == "Trading near fair value with minimal safety margin. Wait for a better entry point unless you have high conviction."

RecModeratelyOver == "Moderately overvalued. Not recommended for value investors. Consider waiting for a price correction."

RecSignificantlyOver == "Significantly overvalued. High risk of price decline. Avoid purchase and consider selling if held."

RecNoValid == "Unable to calculate - no valid valuation methods"

\* Mutant of MarginBand: strict comparisons (>) against the thresholds.
MarginBand_Strict(marginOfSafety) ==
  IF RGt(marginOfSafety, MosExcellent)
  THEN [status |-> "undervalued", recommendation |-> RecExcellent, riskLevel |-> "low"]
  ELSE IF RGt(marginOfSafety, MosGood)
  THEN [status |-> "undervalued", recommendation |-> RecGood, riskLevel |-> "low"]
  ELSE IF RGt(marginOfSafety, MosMinimum)
  THEN [status |-> "undervalued", recommendation |-> RecAcceptable, riskLevel |-> "medium"]
  ELSE IF RGt(marginOfSafety, Zero)
  THEN [status |-> "fair", recommendation |-> RecFair, riskLevel |-> "medium"]
  ELSE IF RGt(marginOfSafety, Rat(-25, 100))
  THEN [status |-> "overvalued", recommendation |-> RecModeratelyOver, riskLevel |-> "high"]
  ELSE [status |-> "overvalued", recommendation |-> RecSignificantlyOver, riskLevel |-> "high"]

\* The if / else-if chain of calculateMarginOfSafety on the computed margin.
MarginBand(marginOfSafety) ==
  IF RGe(marginOfSafety, MosExcellent)
  THEN [status |-> "undervalued", recommendation |-> RecExcellent, riskLevel |-> "low"]
  ELSE IF RGe(marginOfSafety, MosGood)
  THEN [status |-> "undervalued", recommendation |-> RecGood, riskLevel |-> "low"]
  ELSE IF RGe(marginOfSafety, MosMinimum)
  THEN [status |-> "undervalued", recommendation |-> RecAcceptable, riskLevel |-> "medium"]
  ELSE IF RGe(marginOfSafety, Zero)
  THEN [status |-> "fair", recommendation |-> RecFair, riskLevel |-> "medium"]
  ELSE IF RGe(marginOfSafety, Rat(-25, 100))
  THEN [status |-> "overvalued", recommendation |-> RecModeratelyOver, riskLevel |-> "high"]
  ELSE [status |-> "overvalued", recommendation |-> RecSignificantlyOver, riskLevel |-> "high"]

\* Mutant of calculateMarginOfSafety: the edge-case branch guards only the
\* division (intrinsicValue <= 0) and reports the band of a zero margin.
calculateMarginOfSafety_FairDefault(currentPrice, intrinsicValue) ==
  LET marginOfSafety == IF RLe(intrinsicValue, Zero) THEN Zero
                        ELSE RDiv(RSub(intrinsicValue, currentPrice), intrinsicValue)
      band == MarginBand(marginOfSafety)
  IN  [marginOfSafety |-> marginOfSafety,
       currentPrice   |-> currentPrice,
       intrinsicValue |-> intrinsicValue,
       status         |-> band.status,
       recommendation |-> band.recommendation,
       riskLevel      |-> band.riskLevel]

calculateMarginOfSafety(currentPrice, intrinsicValue) ==
  IF RLe(intrinsicValue, Zero) \/ RLe(currentPrice, Zero)
  THEN [marginOfSafety |-> Zero,
        currentPrice   |-> currentPrice,
        intrinsicValue |-> intrinsicValue,
        status         |-> "overvalued",
        recommendation |-> RecInvalid,
        riskLevel      |-> "high"]
  ELSE LET marginOfSafety == RDiv(RSub(intrinsicValue, currentPrice), intrinsicValue)
           band == MarginBand(marginOfSafety)
       IN  [marginOfSafety |-> marginOfSafety,
            currentPrice   |-> currentPrice,
            intrinsicValue |-> intrinsicValue,
            status         |-> band.status,
            recommendation |-> band.recommendation,
            riskLevel      |-> band.riskLevel]

\* value !== null && value > 0
IsValidValuation(value) == ~IsNull(value) /\ RGt(value, Zero)

\* The values pushed to validValues, in Object.entries order.
RECURSIVE ValidValues(_)
ValidValues(entries) ==
  IF entries = <<>> THEN <<>>
  ELSE IF IsValidValuation(Head(entries).value)
       THEN <<Head(entries).value>> \o ValidValues(Tail(entries))
       ELSE ValidValues(Tail(entries))

\* individual[method] for every entry of valuations.
IndividualMargins(currentPrice, entries) ==
  [i \in 1..Len(entries) |->
     [method |-> entries[i].method,
      margin |-> IF IsValidValuation(entries[i].value)
                 THEN RDiv(RSub(entries[i].value, currentPrice), entries[i].value)
                 ELSE Null]]

\* Mutant of EffectiveIntrinsicValue: the average alone is used.
EffectiveIntrinsicValue_Average(validValues) ==
  RDiv(SeqSum(validValues), Int2Rat(Len(validValues)))

\* Math.min(conservativeValue, averageValue)
EffectiveIntrinsicValue(validValues) ==
  LET conservativeValue == SeqMin(validValues)
      averageValue == RDiv(SeqSum(validValues), Int2Rat(Len(validValues)))
  IN  RMin(conservativeValue, averageValue)

\* (intrinsicValue - currentPrice) / intrinsicValue, computed directly.
CombinedMargin(currentPrice, intrinsicValue) ==
  RDiv(RSub(intrinsicValue, currentPrice), intrinsicValue)

calculateCombinedMarginOfSafety(currentPrice, valuations) ==
  LET individual == IndividualMargins(currentPrice, valuations)
      validValues == ValidValues(valuations)
  IN  IF Len(validValues) = 0
      THEN [individual |-> individual,
            averageIntrinsicValue |-> Zero,
            combinedMarginOfSafety |-> Int2Rat(-1),
            status |-> "overvalued",
            recommendation |-> RecNoValid]
      ELSE LET intrinsicValue == EffectiveIntrinsicValue(validValues)
               combinedMarginOfSafety == CombinedMargin(currentPrice, intrinsicValue)
               result == calculateMarginOfSafety(currentPrice, intrinsicValue)
           IN  [individual |-> individual,
                averageIntrinsicValue |-> intrinsicValue,
                combinedMarginOfSafety |-> combinedMarginOfSafety,
                status |-> result.status,
                recommendation |-> result.recommendation]

---------------------------------------------------------------------------
(* analysis/ratios.ts                                                      *)
(*                                                                         *)
(* Money amounts of statements, quotes and profiles are in millions of     *)
(* dollars; the dollar thresholds of the source are scaled to that unit.   *)
(*                                                                         *)
(* A CAGR (end/start)^(1/years) - 1 is irrational in general.  It is kept  *)
(* as the record [start, end, years] and compared with rationals exactly,  *)
(* by raising both sides to the power years; years = 0 stands for null.    *)

RECURSIVE RPow(_, _)
RPow(x, k) == IF k = 0 THEN One ELSE RMul(x, RPow(x, k - 1))

CagrNull == [start |-> Zero, end |-> Zero, years |-> 0]

CagrIsNull(c) == c.years = 0

\* The CAGR whose value is 0 (what "revenueGrowth || 0" yields for null).
CagrZero == [start |-> One, end |-> One, years |-> 1]

calculateCAGR(startValue, endValue, years) ==
  IF RLe(startValue, Zero) \/ RLe(endValue, Zero) \/ years <= 0
  THEN CagrNull
  ELSE [start |-> startValue, end |-> endValue, years |-> years]

\* c >= r for a non-null CAGR c and a rational r > -1.
CagrGe(c, r) == RGe(RDiv(c.end, c.start), RPow(RAdd(One, r), c.years))

Min2(a, b) == IF a <= b THEN a ELSE b

\* x || 0 for a number that may be null / undefined.
OrZero(x) == IF IsNull(x) THEN Zero ELSE x

\* The fields of FinancialRatios the moat scorer reads, the profitability
\* ratios computed next to them, and the growth rates.
getDefaultRatios ==
  [grossMargin |-> Zero, operatingMargin |-> Zero, netMargin |-> Zero,
   roe |-> Zero, currentRatio |-> Zero, revenueGrowth5Y |-> CagrNull,
   epsGrowth5Y |-> CagrNull, fcfGrowth5Y |-> CagrNull]

calculateFinancialRatios(financials, quote) ==
  LET incomeStatements == financials.incomeStatements
      balanceSheets == financials.balanceSheets
      cashFlowStatements == financials.cashFlowStatements
  IN  IF Len(incomeStatements) = 0 \/ Len(balanceSheets) = 0
         \/ Len(cashFlowStatements) = 0
      THEN getDefaultRatios
      ELSE LET income == incomeStatements[1]
               balance == balanceSheets[1]
               cashFlow == cashFlowStatements[1]
               years == Min2(Len(incomeStatements) - 1, 5)
               fcfYears == Min2(Len(cashFlowStatements) - 1, 5)
           IN  [grossMargin |->
                  IF RGt(income.revenue, Zero)
                  THEN RDiv(income.grossProfit, income.revenue) ELSE Zero,
                operatingMargin |->
                  IF RGt(income.revenue, Zero)
                  THEN RDiv(income.operatingIncome, income.revenue) ELSE Zero,
                netMargin |->
                  IF RGt(income.revenue, Zero)
                  THEN RDiv(income.netIncome, income.revenue) ELSE Zero,
                roe |->
                  IF RGt(balance.totalEquity, Zero)
                  THEN RDiv(income.netIncome, balance.totalEquity) ELSE Zero,
                currentRatio |->
                  IF ~IsNull(balance.currentLiabilities)
                     /\ RGt(balance.currentLiabilities, Zero)
                  THEN RDiv(balance.currentAssets, balance.currentLiabilities)
                  ELSE Zero,
                revenueGrowth5Y |->
                  IF years > 0
                  THEN calculateCAGR(OrZero(incomeStatements[years + 1].revenue),
                                     income.revenue, years)
                  ELSE CagrNull,
                epsGrowth5Y |->
                  IF years > 0
                  THEN calculateCAGR(
                         RMax(OrZero(incomeStatements[years + 1].eps),
                              Rat(1, 100)),
                         RMax(income.eps, Rat(1, 100)), years)
                  ELSE CagrNull,
                fcfGrowth5Y |->
                  IF fcfYears > 0
                  THEN calculateCAGR(
                         RMax(OrZero(cashFlowStatements[fcfYears + 1].freeCashFlow),
                              One),
                         RMax(cashFlow.freeCashFlow, One), fcfYears)
                  ELSE CagrNull]

---------------------------------------------------------------------------
(* analysis/moat-scorer.ts                                                 *)
(*                                                                         *)
(* calculateStability returns max(0, min(1, 1 - sqrt(variance)/|mean|)).   *)
(* The value 1 - sqrt(q), 0 <= q <= 1, is kept as the record [q |-> q],    *)
(* q = min(1, variance / mean^2), and compared with rationals exactly.     *)

StabilityOne == [q |-> Zero]

StabilityZero == [q |-> One]

Square(x) == RMul(x, x)

calculateStability(values) ==
  IF Len(values) < 2 THEN StabilityOne
  ELSE LET mean == RDiv(SeqSum(values), Int2Rat(Len(values)))
       IN  IF mean = Zero THEN StabilityZero
           ELSE LET variance ==
                      RDiv(SeqSum([i \in 1..Len(values) |->
                                     Square(RSub(values[i], mean))]),
                           Int2Rat(Len(values)))
                IN  [q |-> RMin(One, RDiv(variance, Square(mean)))]

\* stability >= t for a rational threshold 0 <= t <= 1.
StabGe(stability, t) == RLe(stability.q, Square(RSub(One, t)))

\* stmt.revenue > 0 ? stmt.<field> / stmt.revenue : 0, per income statement.
MarginSeries(incomeStatements, field) ==
  [i \in 1..Len(incomeStatements) |->
     IF RGt(incomeStatements[i].revenue, Zero)
     THEN RDiv(incomeStatements[i][field], incomeStatements[i].revenue)
     ELSE Zero]

Revenues(incomeStatements) ==
  [i \in 1..Len(incomeStatements) |-> incomeStatements[i].revenue]

analyzeBrandPower(financials, ratios) ==
  LET grossMargin == ratios.grossMargin
      level ==
        IF RGe(grossMargin, Rat(60, 100))
        THEN [add |-> Int2Rat(2), ev |-> "Exceptional gross margin indicates strong pricing power"]
        ELSE IF RGe(grossMargin, Rat(40, 100))
        THEN [add |-> Rat(3, 2), ev |-> "Strong gross margin suggests brand value"]
        ELSE IF RGe(grossMargin, Rat(25, 100))
        THEN [add |-> Rat(1, 2), ev |-> "Moderate gross margin"]
        ELSE [add |-> Zero, ev |-> "Low gross margin suggests commodity-like products"]
      grossMargins == MarginSeries(financials.incomeStatements, "grossProfit")
      marginStability == calculateStability(grossMargins)
      stable ==
        IF StabGe(marginStability, Rat(9, 10))
        THEN [add |-> One, ev |-> "Very stable gross margins over time"]
        ELSE IF StabGe(marginStability, Rat(7, 10))
        THEN [add |-> Rat(1, 2), ev |-> "Reasonably stable gross margins"]
        ELSE [add |-> Zero, ev |-> "Volatile gross margins suggest weak pricing power"]
      score == RAdd(RAdd(One, level.add), stable.add)
  IN  [score |-> RMin(Int2Rat(5), score),
       evidence |-> <<level.ev, stable.ev>>,
       metrics |-> [grossMargin |-> grossMargin,
                    grossMarginStability |-> marginStability]]

\* Mutant of CostAdvantageScore: no floor under the penalised score.
CostAdvantageScore_NoFloor(score) == RMin(Int2Rat(5), score)

\* Math.min(5, Math.max(1, score))
CostAdvantageScore(score) == RMin(Int2Rat(5), RMax(One, score))

analyzeCostAdvantage(financials, ratios) ==
  LET opMargin == ratios.operatingMargin
      level ==
        IF RGe(opMargin, Rat(30, 100))
        THEN [add |-> Int2Rat(2), ev |-> "Exceptional operating margin"]
        ELSE IF RGe(opMargin, Rat(20, 100))
        THEN [add |-> Rat(3, 2), ev |-> "Strong operating margin"]
        ELSE IF RGe(opMargin, Rat(10, 100))
        THEN [add |-> Rat(1, 2), ev |-> "Adequate operating margin"]
        ELSE [add |-> Zero, ev |-> "Low operating margin indicates no cost advantage"]
      opMargins == MarginSeries(financials.incomeStatements, "operatingIncome")
      n == Len(opMargins)
      \* (opMargins[0] - opMargins[n-1]) / Math.abs(opMargins[n-1] || 1)
      trend == RDiv(RSub(opMargins[1], opMargins[n]),
                    IF opMargins[n] = Zero THEN One
                    ELSE [n |-> Abs(opMargins[n].n), d |-> opMargins[n].d])
      trendAdj ==
        IF n >= 3
        THEN IF RGt(trend, Rat(1, 10))
             THEN [add |-> One, ev |-> <<"Operating margins improving over time">>]
             ELSE IF RGt(trend, Zero)
             THEN [add |-> Rat(1, 2), ev |-> <<"Operating margins stable to slightly improving">>]
             ELSE IF RLt(trend, Rat(-1, 10))
             THEN [add |-> Rat(-1, 2), ev |-> <<"Operating margins declining - cost advantage may be eroding">>]
             ELSE [add |-> Zero, ev |-> <<>>]
        ELSE [add |-> Zero, ev |-> <<>>]
      score == RAdd(RAdd(One, level.add), trendAdj.add)
  IN  [score |-> CostAdvantageScore(score),
       evidence |-> <<level.ev>> \o trendAdj.ev,
       metrics |-> [operatingMargin |-> opMargin,
                    operatingMarginVsIndustry |-> Null]]

analyzeNetworkEffect(financials, ratios) ==
  LET revenueGrowth == ratios.revenueGrowth5Y
      growth ==
        IF ~CagrIsNull(revenueGrowth)
        THEN IF CagrGe(revenueGrowth, Rat(20, 100))
             THEN [add |-> Int2Rat(2), ev |-> <<"Strong revenue growth may indicate network effects">>]
             ELSE IF CagrGe(revenueGrowth, Rat(10, 100))
             THEN [add |-> One, ev |-> <<"Good revenue growth">>]
             ELSE IF CagrGe(revenueGrowth, Rat(5, 100))
             THEN [add |-> Rat(1, 2), ev |-> <<"Moderate revenue growth">>]
             ELSE [add |-> Zero, ev |-> <<"Slow revenue growth - limited network effects">>]
        ELSE [add |-> Zero, ev |-> <<>>]
      revenues == Revenues(financials.incomeStatements)
      netMargins == MarginSeries(financials.incomeStatements, "netIncome")
      n == Len(revenues)
      scale ==
        IF n >= 3 /\ RGt(revenues[1], revenues[n]) /\ RGt(netMargins[1], netMargins[n])
        THEN [add |-> One, ev |-> <<"Margins improving with scale - possible network effect">>]
        ELSE [add |-> Zero, ev |-> <<>>]
      score == RAdd(RAdd(One, growth.add), scale.add)
  IN  [score |-> RMin(Int2Rat(5), score),
       evidence |-> growth.ev \o scale.ev,
       metrics |-> [revenueGrowth |-> IF CagrIsNull(revenueGrowth) THEN CagrZero
                                      ELSE revenueGrowth,
                    userGrowth |-> Null]]

analyzeSwitchingCosts(financials, ratios) ==
  LET revenues == Revenues(financials.incomeStatements)
      n == Len(revenues)
      revenueStability == calculateStability(revenues)
      stable ==
        IF StabGe(revenueStability, Rat(95, 100))
        THEN [add |-> Int2Rat(2), ev |-> "Very stable revenue base suggests high customer retention"]
        ELSE IF StabGe(revenueStability, Rat(85, 100))
        THEN [add |-> One, ev |-> "Stable revenue indicates moderate switching costs"]
        ELSE IF StabGe(revenueStability, Rat(70, 100))
        THEN [add |-> Rat(1, 2), ev |-> "Moderately stable revenue"]
        ELSE [add |-> Zero, ev |-> "Volatile revenue suggests low switching costs"]
      \* revenues.slice(0, -1).every((rev, i) => rev >= revenues[i + 1])
      allPositiveGrowth == \A i \in 1..(n - 1) : RGe(revenues[i], revenues[i + 1])
      sticky ==
        IF allPositiveGrowth /\ n >= 3
        THEN [add |-> One, ev |-> <<"Consistent revenue growth indicates customer stickiness">>]
        ELSE [add |-> Zero, ev |-> <<>>]
      lockIn ==
        IF RGe(ratios.grossMargin, Rat(50, 100))
        THEN [add |-> Rat(1, 2), ev |-> <<"High margins may indicate customer lock-in">>]
        ELSE [add |-> Zero, ev |-> <<>>]
      score == RAdd(RAdd(RAdd(One, stable.add), sticky.add), lockIn.add)
  IN  [score |-> RMin(Int2Rat(5), score),
       evidence |-> <<stable.ev>> \o sticky.ev \o lockIn.ev,
       metrics |-> [revenueStability |-> revenueStability,
                    customerRetention |-> Null]]

analyzeScaleEconomies(financials, quote, profile, ratios) ==
  LET marketCap == quote.marketCap
      size ==
        IF RGe(marketCap, Int2Rat(200000))
        THEN [add |-> Int2Rat(2), ev |-> "Mega-cap company with significant scale advantages"]
        ELSE IF RGe(marketCap, Int2Rat(50000))
        THEN [add |-> Rat(3, 2), ev |-> "Large-cap company with scale benefits"]
        ELSE IF RGe(marketCap, Int2Rat(10000))
        THEN [add |-> Rat(1, 2), ev |-> "Mid-cap company with some scale advantages"]
        ELSE [add |-> Zero, ev |-> "Smaller company - limited scale advantages"]
      latestRevenue == IF Len(financials.incomeStatements) = 0 THEN Zero
                       ELSE OrZero(financials.incomeStatements[1].revenue)
      employees == profile.employees
      hasEmployees == ~IsNull(employees) /\ RGt(employees, Zero)
      revenuePerEmployee == IF hasEmployees THEN RDiv(latestRevenue, employees)
                            ELSE Null
      efficiency ==
        IF hasEmployees
        THEN IF RGe(revenuePerEmployee, One)
             THEN [add |-> Rat(3, 2), ev |-> <<"High revenue per employee indicates efficiency">>]
             ELSE IF RGe(revenuePerEmployee, Rat(1, 2))
             THEN [add |-> Rat(1, 2), ev |-> <<"Good revenue per employee">>]
             ELSE [add |-> Zero, ev |-> <<"Lower revenue per employee">>]
        ELSE [add |-> Zero, ev |-> <<>>]
      score == RAdd(RAdd(One, size.add), efficiency.add)
  IN  [score |-> RMin(Int2Rat(5), score),
       evidence |-> <<size.ev>> \o efficiency.ev,
       metrics |-> [marketCap |-> marketCap,
                    revenuePerEmployee |-> revenuePerEmployee]]

\* netIncome / (totalEquity || 1) for the years both statements exist.
RoeValues(financials) ==
  [i \in 1..Min2(Len(financials.incomeStatements), Len(financials.balanceSheets)) |->
     RDiv(OrZero(financials.incomeStatements[i].netIncome),
          IF OrZero(financials.balanceSheets[i].totalEquity) = Zero THEN One
          ELSE financials.balanceSheets[i].totalEquity)]

\* Mutant of FcfAdjustment: no minimum number of years for the bonus.
FcfAdjustment_AnyLength(fcfValues) ==
  LET positiveFcfYears ==
        Cardinality({i \in 1..Len(fcfValues) : RGt(fcfValues[i], Zero)})
  IN  IF positiveFcfYears = Len(fcfValues)
      THEN [add |-> Rat(1, 2), ev |-> "Consistently positive free cash flow"]
      ELSE IF RGe(Int2Rat(positiveFcfYears),
                  RMul(Int2Rat(Len(fcfValues)), Rat(8, 10)))
      THEN [add |-> Zero, ev |-> "Generally positive free cash flow"]
      ELSE [add |-> Rat(-1, 2), ev |-> "Inconsistent free cash flow"]

\* Free cash flow consistency: the adjustment of the durability score and
\* its factor.
FcfAdjustment(fcfValues) ==
  LET positiveFcfYears ==
        Cardinality({i \in 1..Len(fcfValues) : RGt(fcfValues[i], Zero)})
  IN  IF positiveFcfYears = Len(fcfValues) /\ Len(fcfValues) >= 3
      THEN [add |-> Rat(1, 2), ev |-> "Consistently positive free cash flow"]
      ELSE IF RGe(Int2Rat(positiveFcfYears),
                  RMul(Int2Rat(Len(fcfValues)), Rat(8, 10)))
      THEN [add |-> Zero, ev |-> "Generally positive free cash flow"]
      ELSE [add |-> Rat(-1, 2), ev |-> "Inconsistent free cash flow"]

\* Mutant of DurabilityVerdict: 'strong' only from 4.5.
DurabilityVerdict_Late(durabilityScore) ==
  IF RGe(durabilityScore, Rat(9, 2))
  THEN [assessment |-> "strong", ev |-> "Moat appears sustainable long-term"]
  ELSE IF RGe(durabilityScore, Rat(5, 2))
  THEN [assessment |-> "moderate", ev |-> "Moat durability is uncertain"]
  ELSE [assessment |-> "weak", ev |-> "Competitive advantages may be temporary"]

\* The assessment of the unclamped durability score and its factor.
DurabilityVerdict(durabilityScore) ==
  IF RGe(durabilityScore, Int2Rat(4))
  THEN [assessment |-> "strong", ev |-> "Moat appears sustainable long-term"]
  ELSE IF RGe(durabilityScore, Rat(5, 2))
  THEN [assessment |-> "moderate", ev |-> "Moat durability is uncertain"]
  ELSE [assessment |-> "weak", ev |-> "Competitive advantages may be temporary"]

analyzeDurability(financials, ratios, overallScore) ==
  LET roeValues == RoeValues(financials)
      roeStability == calculateStability(roeValues)
      \* 0 / 0 is NaN when there is no ROE value: every comparison is false.
      hasRoe == Len(roeValues) > 0
      avgRoe == IF hasRoe THEN RDiv(SeqSum(roeValues), Int2Rat(Len(roeValues)))
                ELSE Null
      roeAdj ==
        IF hasRoe /\ RGe(avgRoe, Rat(15, 100)) /\ StabGe(roeStability, Rat(8, 10))
        THEN [add |-> One, ev |-> "Consistently high ROE indicates durable advantage"]
        ELSE IF hasRoe /\ RGe(avgRoe, Rat(10, 100)) /\ StabGe(roeStability, Rat(6, 10))
        THEN [add |-> Zero, ev |-> "Moderately consistent ROE"]
        ELSE [add |-> Rat(-1, 2), ev |-> "Inconsistent ROE raises durability concerns"]
      fcfValues == [i \in 1..Len(financials.cashFlowStatements) |->
                      financials.cashFlowStatements[i].freeCashFlow]
      fcfAdj == FcfAdjustment(fcfValues)
      durabilityScore == RAdd(RAdd(overallScore, roeAdj.add), fcfAdj.add)
      verdict == DurabilityVerdict(durabilityScore)
  IN  [score |-> RMax(One, RMin(Int2Rat(5), durabilityScore)),
       assessment |-> verdict.assessment,
       factors |-> <<roeAdj.ev, fcfAdj.ev, verdict.ev>>]

\* Mutant of OverallScore: the mean of the five dimension scores.
OverallScore_Mean(dimensionScores) ==
  RDiv(SeqSum(dimensionScores), Int2Rat(Len(dimensionScores)))

\* Math.max(...dimensionScores)
OverallScore(dimensionScores) == SeqMax(dimensionScores)

MoatRating(overallScore) ==
  IF RGe(overallScore, Int2Rat(4)) THEN "wide"
  ELSE IF RGe(overallScore, Rat(5, 2)) THEN "narrow"
  ELSE "none"

\* now: what new Date() reads from the clock.
analyzeMoat(financials, quote, profile, now) ==
  LET ratios == calculateFinancialRatios(financials, quote)
      brandPower == analyzeBrandPower(financials, ratios)
      costAdvantage == analyzeCostAdvantage(financials, ratios)
      networkEffect == analyzeNetworkEffect(financials, ratios)
      switchingCosts == analyzeSwitchingCosts(financials, ratios)
      scaleEconomies == analyzeScaleEconomies(financials, quote, profile, ratios)
      dimensionScores == <<brandPower.score, costAdvantage.score,
                           networkEffect.score, switchingCosts.score,
                           scaleEconomies.score>>
      overallScore == OverallScore(dimensionScores)
  IN  [ticker |-> quote.ticker,
       companyName |-> quote.name,
       overallScore |-> overallScore,
       moatRating |-> MoatRating(overallScore),
       dimensions |-> [brandPower |-> brandPower,
                       costAdvantage |-> costAdvantage,
                       networkEffect |-> networkEffect,
                       switchingCosts |-> switchingCosts,
                       scaleEconomies |-> scaleEconomies],
       durability |-> analyzeDurability(financials, ratios, overallScore),
       analyzedAt |-> now]

---------------------------------------------------------------------------
(* Margin-of-safety specification: the arguments of one call.              *)

\* Number of 5-dollar steps of the price grid.
MaxPriceSteps == 30

\* Prices and intrinsic values: 0, 5, ..., 5 * MaxPriceSteps, a negative
\* value, and two fractional amounts.
Amounts ==
  {Int2Rat(5 * k) : k \in 0..MaxPriceSteps}
    \cup {Int2Rat(-5), Rat(1, 2), Rat(399, 4)}

\* Values one valuation method can report.
ValuationValues == {Null, Int2Rat(-5), Zero, Int2Rat(40), Int2Rat(100), Rat(399, 4)}

\* Method names of the valuations argument (tools/valuation.ts).
Methods == <<"dcf", "grahamNumber", "grahamGrowth">>

Valuations ==
  {[i \in 1..Len(Methods) |-> [method |-> Methods[i], value |-> f[i]]] :
     f \in [1..Len(Methods) -> ValuationValues]}

CombinedPrices == {Int2Rat(-5), Zero, Int2Rat(30), Int2Rat(40), Int2Rat(100), Int2Rat(150)}

InitMoS ==
  /\ phase = "called"
  /\ ret = Null
  /\ last = Null
  /\ \/ \E p \in Amounts, v \in Amounts :
          args = [fn |-> "calculateMarginOfSafety",
                  currentPrice |-> p, intrinsicValue |-> v]
     \/ \E p \in CombinedPrices, vs \in Valuations :
          args = [fn |-> "calculateCombinedMarginOfSafety",
                  currentPrice |-> p, valuations |-> vs]

CallCalculateMarginOfSafety ==
  /\ phase = "called"
  /\ args.fn = "calculateMarginOfSafety"
  /\ ret' = calculateMarginOfSafety(args.currentPrice, args.intrinsicValue)
  /\ phase' = "returned"
  /\ UNCHANGED <<args, last>>

CallCalculateCombinedMarginOfSafety ==
  /\ phase = "called"
  /\ args.fn = "calculateCombinedMarginOfSafety"
  /\ ret' = calculateCombinedMarginOfSafety(args.currentPrice, args.valuations)
  /\ phase' = "returned"
  /\ UNCHANGED <<args, last>>

NextMoS == CallCalculateMarginOfSafety \/ CallCalculateCombinedMarginOfSafety

SpecMoS == InitMoS /\ [][NextMoS]_vars

---------------------------------------------------------------------------
(* Claims about the margin of safety.                                      *)

Returned(fn) == phase = "returned" /\ args.fn = fn

\* Indices of the valuations that are non-null and > 0, read off the call's
\* arguments.
ValidIdx == {i \in 1..Len(args.valuations) :
               args.valuations[i].value.d # 0 /\ args.valuations[i].value.n > 0}

\* The valuations argument with every invalid value replaced by null.
OnlyValid ==
  [i \in 1..Len(args.valuations) |->
     IF i \in ValidIdx THEN args.valuations[i]
     ELSE [method |-> args.valuations[i].method, value |-> Null]]

RECURSIVE SumOver(_, _)
SumOver(S, f) ==
  IF S = {} THEN Zero
  ELSE LET i == CHOOSE j \in S : TRUE IN RAdd(f[i].value, SumOver(S \ {i}, f))

\* C1: whenever at least one valuation is non-null and > 0, the returned
\* averageIntrinsicValue is the lesser of the minimum and the arithmetic
\* mean of the valid values, so it never exceeds any valid value, and the
\* invalid values have no influence on it.
C1_EffectiveValueIsLesserOfMinAndMean ==
  (Returned("calculateCombinedMarginOfSafety") /\ ValidIdx # {}) =>
     LET v == ret.averageIntrinsicValue
         mean == RDiv(SumOver(ValidIdx, args.valuations),
                      Int2Rat(Cardinality(ValidIdx)))
         isMin(x) == /\ \E i \in ValidIdx : args.valuations[i].value = x
                     /\ \A i \in ValidIdx : RLe(x, args.valuations[i].value)
     IN  /\ \A i \in ValidIdx : RLe(v, args.valuations[i].value)
         /\ \/ isMin(v) /\ RLe(v, mean)
            \/ v = mean /\ \A i \in ValidIdx : RLe(mean, args.valuations[i].value)
         /\ v = calculateCombinedMarginOfSafety(args.currentPrice,
                                                OnlyValid).averageIntrinsicValue

\* A call with two different valid values and an invalid one has returned.
C1_Witness ==
  /\ Returned("calculateCombinedMarginOfSafety")
  /\ Cardinality({args.valuations[i].value : i \in ValidIdx}) >= 2
  /\ Cardinality(ValidIdx) < Len(args.valuations)
  /\ ret.averageIntrinsicValue = Int2Rat(40)

\* The margin (intrinsicValue - currentPrice) / intrinsicValue of the call.
ArgMargin ==
  RDiv(RSub(args.intrinsicValue, args.currentPrice), args.intrinsicValue)

BothPositive == args.intrinsicValue.n > 0 /\ args.currentPrice.n > 0

Verdict(status, riskLevel, recommendation) ==
  /\ ret.status = status
  /\ ret.riskLevel = riskLevel
  /\ ret.recommendation = recommendation

C7_InvalidInputsAreOvervalued ==
  Returned("calculateMarginOfSafety") =>
     /\ ~BothPositive =>
          /\ ret.marginOfSafety = Zero
          /\ ret.status = "overvalued"
          /\ ret.riskLevel = "high"
          /\ ret.currentPrice = args.currentPrice
          /\ ret.intrinsicValue = args.intrinsicValue
     /\ (ret.marginOfSafety = Zero /\ ret.status = "fair") =>
          (BothPositive /\ args.currentPrice = args.intrinsicValue)

\* A call with currentPrice = 0 and a positive intrinsic value has returned.
C7_Witness ==
  /\ Returned("calculateMarginOfSafety")
  /\ args.currentPrice = Zero
  /\ args.intrinsicValue = Int2Rat(100)
  /\ ret.status = "overvalued"

IsCall70_100 ==
  /\ Returned("calculateMarginOfSafety")
  /\ args.currentPrice = Int2Rat(70)
  /\ args.intrinsicValue = Int2Rat(100)

C9_Original ==
  Returned("calculateCombinedMarginOfSafety") =>
     IF ValidIdx = {}
     THEN ret.combinedMarginOfSafety = Int2Rat(-1) /\ ret.status = "overvalued"
     ELSE LET single == calculateMarginOfSafety(args.currentPrice,
                                                ret.averageIntrinsicValue)
          IN  /\ ret.combinedMarginOfSafety = single.marginOfSafety
              /\ ret.status = single.status


---------------------------------------------------------------------------
(* Moat specification: one call of analyzeMoat.                            *)

\* Longest statement history, in fiscal years.
MaxHistory == 3

\* Latest reading of the clock behind new Date().
MaxClock == 2

\* One fiscal year of a company, in millions of dollars: the fields of the
\* income statement, the balance sheet and the cash-flow statement that the
\* moat scorer reads.
YearProfiles ==
  { \* premium business
    [revenue |-> Int2Rat(20), grossProfit |-> Int2Rat(13),
     operatingIncome |-> Int2Rat(7), netIncome |-> Int2Rat(4),
     totalEquity |-> Int2Rat(20), freeCashFlow |-> Int2Rat(3)],
    \* solid business
    [revenue |-> Int2Rat(10), grossProfit |-> Int2Rat(4),
     operatingIncome |-> Int2Rat(2), netIncome |-> Int2Rat(1),
     totalEquity |-> Int2Rat(10), freeCashFlow |-> Int2Rat(1)],
    \* thin margins, losing money
    [revenue |-> Int2Rat(10), grossProfit |-> Int2Rat(2),
     operatingIncome |-> Zero, netIncome |-> Int2Rat(-1),
     totalEquity |-> Int2Rat(10), freeCashFlow |-> Int2Rat(-1)],
    \* no revenue, no equity
    [revenue |-> Zero, grossProfit |-> Zero,
     operatingIncome |-> Int2Rat(-1), netIncome |-> Int2Rat(-2),
     totalEquity |-> Zero, freeCashFlow |-> Int2Rat(-1)],
    \* growing business
    [revenue |-> Int2Rat(16), grossProfit |-> Int2Rat(8),
     operatingIncome |-> Int2Rat(4), netIncome |-> Int2Rat(3),
     totalEquity |-> Int2Rat(15), freeCashFlow |-> Int2Rat(2)] }

\* Statement histories, most recent year first.  Amounts are in millions of
\* dollars and every company has one million shares, so that EPS is the net
\* income.  Current assets are as large as the revenue and current
\* liabilities as large as the equity.
Histories == UNION {[1..k -> YearProfiles] : k \in 0..MaxHistory}

FinancialsOf(history) ==
  [incomeStatements |->
     [i \in 1..Len(history) |->
        [revenue |-> history[i].revenue,
         grossProfit |-> history[i].grossProfit,
         operatingIncome |-> history[i].operatingIncome,
         netIncome |-> history[i].netIncome,
         eps |-> history[i].netIncome]],
   balanceSheets |->
     [i \in 1..Len(history) |->
        [totalEquity |-> history[i].totalEquity,
         currentAssets |-> history[i].revenue,
         currentLiabilities |-> history[i].totalEquity]],
   cashFlowStatements |->
     [i \in 1..Len(history) |-> [freeCashFlow |-> history[i].freeCashFlow]]]

\* Market capitalisations, in millions of dollars.
MarketCaps == {Int2Rat(5000), Int2Rat(10000), Int2Rat(50000), Int2Rat(200000)}

\* CompanyProfile.employees: number | null.
EmployeeCounts == {Null, Zero, Int2Rat(10), Int2Rat(30)}

Clock == 1..MaxClock

InitMoat ==
  /\ phase = "called"
  /\ ret = Null
  /\ last = Null
  /\ \E h \in Histories, mc \in MarketCaps, e \in EmployeeCounts :
       args = [fn |-> "analyzeMoat",
               financials |-> FinancialsOf(h),
               quote |-> [ticker |-> "ACME", name |-> "Acme Corp",
                          marketCap |-> mc],
               profile |-> [employees |-> e]]

CallAnalyzeMoat ==
  /\ phase = "called"
  /\ args.fn = "analyzeMoat"
  /\ \E now \in Clock :
       \* new Date(): the clock does not run backwards between two calls
       /\ last # Null => now >= last.ret.analyzedAt
       /\ ret' = analyzeMoat(args.financials, args.quote, args.profile, now)
  /\ phase' = "returned"
  /\ UNCHANGED <<args, last>>

\* The caller invokes analyzeMoat once more with the same arguments.
AnalyzeMoatAgain ==
  /\ phase = "returned"
  /\ args.fn = "analyzeMoat"
  /\ last = Null
  /\ last' = [args |-> args, ret |-> ret]
  /\ ret' = Null
  /\ phase' = "called"
  /\ UNCHANGED args

NextMoat == CallAnalyzeMoat

NextMoatTwice == CallAnalyzeMoat \/ AnalyzeMoatAgain

SpecMoat == InitMoat /\ [][NextMoat]_vars

SpecMoatTwice == InitMoat /\ [][NextMoatTwice]_vars

---------------------------------------------------------------------------
(* Claims about the moat scorer.                                           *)

\* The five dimension scores of a returned analysis.
DimensionScoresOf(analysis) ==
  <<analysis.dimensions.brandPower.score,
    analysis.dimensions.costAdvantage.score,
    analysis.dimensions.networkEffect.score,
    analysis.dimensions.switchingCosts.score,
    analysis.dimensions.scaleEconomies.score>>

---------------------------------------------------------------------------
(* Exact arithmetic on amounts of any size.                                *)
(*                                                                         *)
(* The discounted-cash-flow engine multiplies a cash flow by one factor    *)
(* per projected year and divides it by powers of 1 + discountRate; the    *)
(* exact values outgrow machine integers.  A natural number is a sequence  *)
(* of limbs in 0..999, least significant first, without a leading zero     *)
(* limb (zero is the empty sequence).  Carries are found by look-ahead     *)
(* rather than by a recursion over the limbs.  An amount is a signed       *)
(* fraction [neg, n, d] of two naturals, d > 0, not reduced to lowest      *)
(* terms; an amount with d = 0 is the result of a division by zero.        *)

Max2(a, b) == IF a >= b THEN a ELSE b

\* The limbs of a machine integer k >= 0.
BNat(k) ==
  IF k = 0 THEN <<>>
  ELSE IF k < 1000 THEN <<k>>
  ELSE IF k < 1000000 THEN <<k % 1000, k \div 1000>>
  ELSE IF k < 1000000000 THEN <<k % 1000, (k \div 1000) % 1000, k \div 1000000>>
  ELSE <<k % 1000, (k \div 1000) % 1000, (k \div 1000000) % 1000, k \div 1000000000>>

Limb(a, i) == IF 1 <= i /\ i <= Len(a) THEN a[i] ELSE 0

\* Drop the leading zero limbs.
BTrim(a) ==
  LET nonzero == {i \in 1..Len(a) : a[i] # 0}
  IN  IF nonzero = {} THEN <<>>
      ELSE SubSeq(a, 1, CHOOSE m \in nonzero : \A j \in nonzero : j <= m)

\* a + b; the limbs of a and b may have leading zeros.
BAdd(a, b) ==
  LET n == Max2(Len(a), Len(b))
      s == SubSeq([i \in 1..n |-> Limb(a, i) + Limb(b, i)], 1, n)
      carryInto(i) == \E j \in 1..(i - 1) :
                         s[j] >= 1000 /\ \A k \in (j + 1)..(i - 1) : s[k] = 999
      r == [i \in 1..n |-> (s[i] + (IF carryInto(i) THEN 1 ELSE 0)) % 1000]
  IN  IF carryInto(n + 1) THEN Append(SubSeq(r, 1, n), 1) ELSE SubSeq(r, 1, n)

\* a - b for a >= b.
BSub(a, b) ==
  LET n == Len(a)
      t == SubSeq([i \in 1..n |-> a[i] - Limb(b, i)], 1, n)
      borrowInto(i) == \E j \in 1..(i - 1) :
                          t[j] < 0 /\ \A k \in (j + 1)..(i - 1) : t[k] = 0
      r == [i \in 1..n |->
              (t[i] - (IF borrowInto(i) THEN 1 ELSE 0) + 1000) % 1000]
  IN  BTrim(SubSeq(r, 1, n))

\* -1, 0 or 1 as a < b, a = b or a > b.
BCmp(a, b) ==
  IF Len(a) < Len(b) THEN -1
  ELSE IF Len(a) > Len(b) THEN 1
  ELSE LET differ == {i \in 1..Len(a) : a[i] # b[i]}
       IN  IF differ = {} THEN 0
           ELSE LET m == CHOOSE i \in differ : \A j \in differ : j <= i
                IN  IF a[m] < b[m] THEN -1 ELSE 1

\* The sum of a[i] * b[k + 1 - i] for i in lo..hi.
RECURSIVE ConvSum(_, _, _, _, _)
ConvSum(a, b, k, lo, hi) ==
  IF lo > hi THEN 0
  ELSE IF lo = hi THEN a[lo] * b[k + 1 - lo]
  ELSE LET mid == (lo + hi) \div 2
       IN  ConvSum(a, b, k, lo, mid) + ConvSum(a, b, k, mid + 1, hi)

BMulLong(a, b) ==
  LET la == Len(a)
      lb == Len(b)
      p == SubSeq([k \in 1..(la + lb - 1) |->
                     ConvSum(a, b, k, Max2(1, k + 1 - lb), Min2(la, k))],
                  1, la + lb - 1)
      n == la + lb + 2
      s == SubSeq([i \in 1..n |->
                     (Limb(p, i) % 1000)
                       + ((Limb(p, i - 1) \div 1000) % 1000)
                       + ((Limb(p, i - 2) \div 1000000) % 1000)
                       + (Limb(p, i - 3) \div 1000000000)],
                  1, n)
      low == SubSeq([i \in 1..n |-> s[i] % 1000], 1, n)
      high == SubSeq([i \in 1..n |-> IF i = 1 THEN 0 ELSE s[i - 1] \div 1000], 1, n)
  IN  BTrim(BAdd(low, high))

BMul(a, b) ==
  IF a = <<>> \/ b = <<>> THEN <<>>
  ELSE IF b = <<1>> THEN a
  ELSE IF a = <<1>> THEN b
  ELSE BMulLong(a, b)

\* The amount equal to a rational in lowest terms.
QRat(r) == [neg |-> r.n < 0, n |-> BNat(Abs(r.n)), d |-> BNat(r.d)]

QZero == [neg |-> FALSE, n |-> <<>>, d |-> <<1>>]

QIsZero(a) == a.n = <<>> /\ a.d # <<>>

QSign(a) == IF a.n = <<>> THEN 0 ELSE IF a.neg THEN -1 ELSE 1

QNeg(a) == IF a.n = <<>> THEN a ELSE [a EXCEPT !.neg = ~a.neg]

QMul(a, b) ==
  LET n == BMul(a.n, b.n)
  IN  [neg |-> n # <<>> /\ a.neg # b.neg, n |-> n, d |-> BMul(a.d, b.d)]

QDiv(a, b) ==
  LET n == BMul(a.n, b.d)
  IN  [neg |-> n # <<>> /\ a.neg # b.neg, n |-> n, d |-> BMul(a.d, b.n)]

QAdd(a, b) ==
  LET same == a.d = b.d
      x == IF same THEN a.n ELSE BMul(a.n, b.d)
      y == IF same THEN b.n ELSE BMul(b.n, a.d)
      d == IF same THEN a.d ELSE BMul(a.d, b.d)
      c == BCmp(x, y)
  IN  IF a.neg = b.neg
      THEN [neg |-> a.neg, n |-> BAdd(x, y), d |-> d]
      ELSE IF c = 0 THEN [neg |-> FALSE, n |-> <<>>, d |-> d]
      ELSE IF c = 1 THEN [neg |-> a.neg, n |-> BSub(x, y), d |-> d]
      ELSE [neg |-> b.neg, n |-> BSub(y, x), d |-> d]

QSub(a, b) == QAdd(a, QNeg(b))

\* -1, 0 or 1 as a < b, a = b or a > b (denominators are positive).
QCmp(a, b) ==
  IF QSign(a) # QSign(b) THEN (IF QSign(a) < QSign(b) THEN -1 ELSE 1)
  ELSE IF QSign(a) = 0 THEN 0
  ELSE LET c == BCmp(BMul(a.n, b.d), BMul(b.n, a.d))
       IN  IF QSign(a) = 1 THEN c ELSE 0 - c

QEq(a, b) == QCmp(a, b) = 0

QLe(a, b) == QCmp(a, b) <= 0

QGe(a, b) == QCmp(a, b) >= 0

QLt(a, b) == QCmp(a, b) < 0

QGt(a, b) == QCmp(a, b) > 0

\* Mutant of QMax: the second argument, whatever the first.
QMax_NoFloor(a, b) == b

QMax(a, b) == IF QGe(a, b) THEN a ELSE b

RECURSIVE QPow(_, _)
QPow(a, k) == IF k = 0 THEN QRat(One) ELSE QMul(a, QPow(a, k - 1))


---------------------------------------------------------------------------
(* analysis/dcf.ts                                                         *)
(*                                                                         *)
(* Rates (discount, growth, terminal growth) are rationals in lowest       *)
(* terms; cash flows and values are amounts.  An undefined                 *)
(* customGrowthRate is Null.                                               *)

\* Growth rates that a history can be told to have exactly: multiples of 5%.
RateGrid == {Rat(k, 20) : k \in -10..20}

\* Math.pow(end / start, 1 / years) - 1 as a rational.  The statement
\* histories of this model have growth rates on RateGrid.
CagrValue(c) ==
  CHOOSE r \in RateGrid : RPow(RAdd(One, r), c.years) = RDiv(c.end, c.start)

RECURSIVE InsertSorted(_, _)
InsertSorted(x, s) ==
  IF s = <<>> THEN <<x>>
  ELSE IF RLe(x, s[1]) THEN <<x>> \o s
  ELSE <<s[1]>> \o InsertSorted(x, Tail(s))

\* growthRates.sort((a, b) => a - b)
RECURSIVE SortAscending(_)
SortAscending(s) ==
  IF s = <<>> THEN <<>> ELSE InsertSorted(s[1], SortAscending(Tail(s)))

\* The CAGR of one field over the statements, as estimateGrowthRate pushes
\* it: nothing for fewer than 3 statements or a non-positive end point.
HistoricalGrowth(statements, field) ==
  IF Len(statements) >= 3
  THEN LET years == Min2(Len(statements) - 1, 5)
           start == statements[years + 1][field]
           end == statements[1][field]
       IN  IF ~IsNull(start) /\ RGt(start, Zero) /\ ~IsNull(end) /\ RGt(end, Zero)
           THEN LET growth == calculateCAGR(start, end, years)
                IN  IF ~CagrIsNull(growth) THEN <<CagrValue(growth)>> ELSE <<>>
           ELSE <<>>
  ELSE <<>>

DefaultGrowthRate == Rat(5, 100)

estimateGrowthRate(financials) ==
  LET growthRates ==
        HistoricalGrowth(financials.cashFlowStatements, "freeCashFlow")
          \o HistoricalGrowth(financials.incomeStatements, "revenue")
          \o HistoricalGrowth(financials.incomeStatements, "eps")
      sorted == SortAscending(growthRates)
      median == sorted[(Len(sorted) \div 2) + 1]
  IN  IF Len(growthRates) = 0 THEN DefaultGrowthRate
      ELSE RMul(median, Rat(8, 10))

\* Mutant of ClampGrowthRate: a rate outside the band falls back to the
\* default rate.
ClampGrowthRate_DefaultOutside(growthRate) ==
  IF RLt(growthRate, Rat(-10, 100)) \/ RGt(growthRate, Rat(25, 100))
  THEN DefaultGrowthRate
  ELSE growthRate

\* Mutant of ClampGrowthRate: the cap at 0.25 without the floor at -0.10.
ClampGrowthRate_CapOnly(growthRate) == RMin(growthRate, Rat(25, 100))

\* Math.max(-0.10, Math.min(growthRate, 0.25))
ClampGrowthRate(growthRate) ==
  RMax(Rat(-10, 100), RMin(growthRate, Rat(25, 100)))

\* Mutant of SafeTerminalGrowth: no clamp below the discount rate.
SafeTerminalGrowth_Unclamped(terminalGrowthRate, discountRate) ==
  terminalGrowthRate

\* Math.min(terminalGrowthRate, discountRate - 0.01)
SafeTerminalGrowth(terminalGrowthRate, discountRate) ==
  RMin(terminalGrowthRate, RSub(discountRate, Rat(1, 100)))

\* Mutant of YearGrowthRate: the fraction lags one year behind.
YearGrowthRate_Lagging(growthRate, safeTerminalGrowth, year, projectionYears) ==
  RSub(growthRate,
       RMul(RSub(growthRate, safeTerminalGrowth),
            Rat(year - 1, projectionYears)))

\* growthRate - ((growthRate - safeTerminalGrowth) * (year / projectionYears))
YearGrowthRate(growthRate, safeTerminalGrowth, year, projectionYears) ==
  RSub(growthRate,
       RMul(RSub(growthRate, safeTerminalGrowth), Rat(year, projectionYears)))

\* The projection loop: fcf = fcf * (1 + yearGrowthRate), pushed each year.
RECURSIVE ProjectFcf(_, _, _, _, _)
ProjectFcf(fcf, growthRate, safeTerminalGrowth, year, projectionYears) ==
  IF year > projectionYears THEN <<>>
  ELSE LET next ==
             QMul(fcf, QRat(RAdd(One, YearGrowthRate(growthRate, safeTerminalGrowth,
                                                     year, projectionYears))))
       IN  <<next>> \o ProjectFcf(next, growthRate, safeTerminalGrowth,
                                  year + 1, projectionYears)

\* Mutant of DiscountFactor: discounting at 1 - discountRate.
DiscountFactor_Minus(discountRate, year) ==
  QPow(QRat(RSub(One, discountRate)), year)

\* Math.pow(1 + discountRate, year)
DiscountFactor(discountRate, year) ==
  QPow(QRat(RAdd(One, discountRate)), year)

\* The present-value loop: pvOfFcf += projectedFcf[year - 1] / discountFactor
\* for year = 1 .. upTo.
RECURSIVE PresentValue(_, _, _)
PresentValue(projectedFcf, discountRate, upTo) ==
  IF upTo = 0 THEN QZero
  ELSE QAdd(PresentValue(projectedFcf, discountRate, upTo - 1),
            QDiv(projectedFcf[upTo], DiscountFactor(discountRate, upTo)))

\* Mutant of createNegativeFcfResult: the reported terminal growth rate is
\* the clamped one.
createNegativeFcfResult_Clamped(params) ==
  [intrinsicValue |-> QZero,
   projectedFcf |-> <<>>,
   terminalValue |-> QZero,
   pvOfFcf |-> QZero,
   pvOfTerminal |-> QZero,
   enterpriseValue |-> QZero,
   assumptions |->
     [discountRate |-> params.discountRate,
      terminalGrowthRate |->
        SafeTerminalGrowth(params.terminalGrowthRate, params.discountRate),
      projectionYears |-> params.projectionYears,
      estimatedGrowthRate |-> Zero,
      startingFcf |-> Zero]]

createNegativeFcfResult(params) ==
  [intrinsicValue |-> QZero,
   projectedFcf |-> <<>>,
   terminalValue |-> QZero,
   pvOfFcf |-> QZero,
   pvOfTerminal |-> QZero,
   enterpriseValue |-> QZero,
   assumptions |->
     [discountRate |-> params.discountRate,
      terminalGrowthRate |-> params.terminalGrowthRate,
      projectionYears |-> params.projectionYears,
      estimatedGrowthRate |-> Zero,
      startingFcf |-> Zero]]

\* x?.field || fallback on the most recent statement of a list.
LatestOr(statements, field, fallback) ==
  IF Len(statements) = 0 THEN fallback
  ELSE IF IsNull(statements[1][field]) \/ statements[1][field] = Zero THEN fallback
  ELSE statements[1][field]

calculateDCF(financials, quote, params) ==
  LET discountRate == params.discountRate
      terminalGrowthRate == params.terminalGrowthRate
      projectionYears == params.projectionYears
      customGrowthRate == params.customGrowthRate
      currentFcf == LatestOr(financials.cashFlowStatements, "freeCashFlow", Zero)
  IN  IF RLe(currentFcf, Zero) THEN createNegativeFcfResult(params)
      ELSE
        LET growthRate ==
              ClampGrowthRate(IF IsNull(customGrowthRate)
                              THEN estimateGrowthRate(financials)
                              ELSE customGrowthRate)
            safeTerminalGrowth == SafeTerminalGrowth(terminalGrowthRate, discountRate)
            projectedFcf == ProjectFcf(QRat(currentFcf), growthRate,
                                       safeTerminalGrowth, 1, projectionYears)
            pvOfFcf == PresentValue(projectedFcf, discountRate, projectionYears)
            terminalFcf == QMul(projectedFcf[projectionYears],
                                QRat(RAdd(One, safeTerminalGrowth)))
            terminalValue ==
              QDiv(terminalFcf, QRat(RSub(discountRate, safeTerminalGrowth)))
            pvOfTerminal ==
              QDiv(terminalValue, DiscountFactor(discountRate, projectionYears))
            enterpriseValue == QAdd(pvOfFcf, pvOfTerminal)
            sharesOutstanding ==
              LatestOr(financials.incomeStatements, "sharesOutstanding", One)
            netDebt == RSub(LatestOr(financials.balanceSheets, "totalDebt", Zero),
                            LatestOr(financials.balanceSheets, "cash", Zero))
            equityValue == QSub(enterpriseValue, QRat(netDebt))
            intrinsicValue ==
              QMax(QZero, QDiv(equityValue, QRat(sharesOutstanding)))
        IN  [intrinsicValue |-> intrinsicValue,
             projectedFcf |-> projectedFcf,
             terminalValue |-> terminalValue,
             pvOfFcf |-> pvOfFcf,
             pvOfTerminal |-> pvOfTerminal,
             enterpriseValue |-> enterpriseValue,
             assumptions |->
               [discountRate |-> discountRate,
                terminalGrowthRate |-> safeTerminalGrowth,
                projectionYears |-> projectionYears,
                estimatedGrowthRate |-> growthRate,
                startingFcf |-> currentFcf]]


---------------------------------------------------------------------------
(* Discounted-cash-flow specifications.                                    *)
(*                                                                         *)
(* SpecDCF is one call of calculateDCF.  SpecDCFDiscount and SpecDCFGrowth *)
(* are two valuations of the same company in a row, the second with a      *)
(* higher discount rate or a higher custom growth rate; last keeps the     *)
(* first call and its result.                                              *)

\* Least projectionYears the input validation admits.
MinProjectionYears == 5

\* Greatest projectionYears of the model.
MaxProjectionYears == 6

ProjectionYearsRange == MinProjectionYears..MaxProjectionYears

\* Statements of a company with the same share count, debt and cash every
\* year; fcfs, revenues and epss list the years, most recent first.
StatementsOf(fcfs, revenues, epss, shares, debt, cash) ==
  [incomeStatements |->
     [i \in 1..Len(revenues) |->
        [revenue |-> revenues[i], eps |-> epss[i], sharesOutstanding |-> shares]],
   balanceSheets |->
     [i \in 1..Len(revenues) |-> [totalDebt |-> debt, cash |-> cash]],
   cashFlowStatements |->
     [i \in 1..Len(fcfs) |-> [freeCashFlow |-> fcfs[i]]]]

\* No statement at all.
NoRecords == StatementsOf(<<>>, <<>>, <<>>, Zero, Zero, Zero)

\* One year of history: the growth rate falls back to the default.
Steady ==
  StatementsOf(<<Int2Rat(100)>>, <<Int2Rat(1000)>>, <<Int2Rat(5)>>,
               Int2Rat(10), Int2Rat(50), Int2Rat(20))

\* FCF grew 10% a year, revenue 20%, EPS 5%.
Grower ==
  StatementsOf(<<Int2Rat(121), Int2Rat(110), Int2Rat(100)>>,
               <<Int2Rat(144), Int2Rat(120), Int2Rat(100)>>,
               <<Rat(441, 100), Rat(42, 10), Int2Rat(4)>>,
               Int2Rat(10), Zero, Int2Rat(30))

\* FCF shrank 10% a year, revenue is flat, EPS turned negative.
Shrinker ==
  StatementsOf(<<Int2Rat(81), Int2Rat(90), Int2Rat(100)>>,
               <<Int2Rat(100), Int2Rat(100), Int2Rat(100)>>,
               <<Int2Rat(-1), Int2Rat(1), Int2Rat(2)>>,
               Int2Rat(4), Int2Rat(10), Zero)

\* Net debt far above any enterprise value; no share count reported.
Indebted ==
  StatementsOf(<<Int2Rat(10)>>, <<Int2Rat(500)>>, <<Int2Rat(1)>>,
               Zero, Int2Rat(1000000), Zero)

\* Negative free cash flow in the most recent year.
LossMaker ==
  StatementsOf(<<Int2Rat(-20), Int2Rat(10), Int2Rat(30)>>,
               <<Int2Rat(90), Int2Rat(100), Int2Rat(110)>>,
               <<Int2Rat(-2), Int2Rat(1), Int2Rat(3)>>,
               Int2Rat(10), Int2Rat(50), Int2Rat(5))

\* Free cash flow of exactly zero.
ZeroFcf ==
  StatementsOf(<<Zero>>, <<Int2Rat(200)>>, <<Int2Rat(1)>>,
               Int2Rat(10), Zero, Zero)

\* Negative free cash flow, no debt and cash in hand.
CashRich ==
  StatementsOf(<<Int2Rat(-5)>>, <<Int2Rat(50)>>, <<Int2Rat(-1)>>,
               Int2Rat(10), Zero, Int2Rat(40))

Companies ==
  {NoRecords, Steady, Grower, Shrinker, Indebted, LossMaker, ZeroFcf, CashRich}

\* Companies valued twice in a row.
RevaluedCompanies == {Steady, Grower}

\* Discount rates of the validated range [0.01, 0.30].
DiscountRates ==
  {Rat(1, 100), Rat(2, 100), Rat(3, 100), Rat(5, 100), Rat(9, 100),
   Rat(10, 100), Rat(11, 100), Rat(20, 100), Rat(30, 100)}

\* Terminal growth rates of the validated range [0, 0.10].
TerminalGrowthRates == {Zero, Rat(3, 100), Rat(10, 100)}

\* Custom growth rates of the validated range [-0.50, 0.50].
CustomGrowthRates ==
  {Rat(-50, 100), Rat(-12, 100), Rat(-10, 100), Zero, Rat(5, 100),
   Rat(25, 100), Rat(27, 100), Rat(50, 100)}

DcfQuote == [ticker |-> "ACME", name |-> "Acme Corp", marketCap |-> Int2Rat(5000)]

DcfCall(company, discountRate, terminalGrowthRate, projectionYears, customGrowthRate) ==
  [fn |-> "calculateDCF",
   financials |-> company,
   quote |-> DcfQuote,
   params |-> [discountRate |-> discountRate,
               terminalGrowthRate |-> terminalGrowthRate,
               projectionYears |-> projectionYears,
               customGrowthRate |-> customGrowthRate]]

InitDCF ==
  /\ phase = "called"
  /\ ret = Null
  /\ last = Null
  /\ \E c \in Companies, dr \in DiscountRates, tg \in TerminalGrowthRates,
        py \in ProjectionYearsRange,
        g \in {Null, Rat(-50, 100), Rat(5, 100), Rat(50, 100)} :
       args = DcfCall(c, dr, tg, py, g)

InitDCFDiscount ==
  /\ phase = "called"
  /\ ret = Null
  /\ last = Null
  /\ \E c \in RevaluedCompanies, dr \in DiscountRates,
        tg \in TerminalGrowthRates, py \in ProjectionYearsRange,
        g \in {Null, Rat(25, 100)} :
       args = DcfCall(c, dr, tg, py, g)

InitDCFGrowth ==
  /\ phase = "called"
  /\ ret = Null
  /\ last = Null
  /\ \E c \in RevaluedCompanies, dr \in {Rat(5, 100), Rat(10, 100)},
        tg \in {Rat(3, 100), Rat(10, 100)}, py \in ProjectionYearsRange,
        g \in CustomGrowthRates :
       args = DcfCall(c, dr, tg, py, g)

CallCalculateDCF ==
  /\ phase = "called"
  /\ args.fn = "calculateDCF"
  /\ ret' = calculateDCF(args.financials, args.quote, args.params)
  /\ phase' = "returned"
  /\ UNCHANGED <<args, last>>

\* The same company is valued again with a higher discount rate.
RevalueWithDiscountRate ==
  /\ phase = "returned"
  /\ args.fn = "calculateDCF"
  /\ last = Null
  /\ \E dr \in DiscountRates :
       /\ RGt(dr, args.params.discountRate)
       /\ args' = [args EXCEPT !.params.discountRate = dr]
  /\ last' = [args |-> args, ret |-> ret]
  /\ ret' = Null
  /\ phase' = "called"

\* The same company is valued again with a higher custom growth rate.
RevalueWithGrowthRate ==
  /\ phase = "returned"
  /\ args.fn = "calculateDCF"
  /\ last = Null
  /\ \E g \in CustomGrowthRates :
       /\ RGt(g, args.params.customGrowthRate)
       /\ args' = [args EXCEPT !.params.customGrowthRate = g]
  /\ last' = [args |-> args, ret |-> ret]
  /\ ret' = Null
  /\ phase' = "called"

NextDCF == CallCalculateDCF

NextDCFDiscount == CallCalculateDCF \/ RevalueWithDiscountRate

NextDCFGrowth == CallCalculateDCF \/ RevalueWithGrowthRate

SpecDCF == InitDCF /\ [][NextDCF]_vars

SpecDCFDiscount == InitDCFDiscount /\ [][NextDCFDiscount]_vars

SpecDCFGrowth == InitDCFGrowth /\ [][NextDCFGrowth]_vars

---------------------------------------------------------------------------
(* Claims about the discounted cash flow.                                  *)

\* The starting free cash flow of the call: the most recent year's, 0 when
\* there is no cash-flow record.
StartingFcf ==
  IF Len(args.financials.cashFlowStatements) = 0 THEN Zero
  ELSE args.financials.cashFlowStatements[1].freeCashFlow

\* calculateDCF has returned for a starting free cash flow <= 0.
RefusedDCF == Returned("calculateDCF") /\ RLe(StartingFcf, Zero)

\* calculateDCF has returned for a starting free cash flow > 0.
ValuedDCF == Returned("calculateDCF") /\ RGt(StartingFcf, Zero)

ValuesZeroed ==
  /\ QIsZero(ret.intrinsicValue)
  /\ ret.projectedFcf = <<>>
  /\ QIsZero(ret.terminalValue)
  /\ QIsZero(ret.pvOfFcf)
  /\ QIsZero(ret.pvOfTerminal)
  /\ QIsZero(ret.enterpriseValue)

SecondOfDiscountPair ==
  /\ Returned("calculateDCF")
  /\ last # Null
  /\ last.args = [args EXCEPT !.params.discountRate = last.args.params.discountRate]
  /\ RLt(last.args.params.discountRate, args.params.discountRate)

\* C4: of two valuations of the same financials with the same
\* terminalGrowthRate, projectionYears and growth rate, the one at the lower
\* discount rate has an intrinsicValue >= the one at the higher discount
\* rate, over the validated range of discount rates.
C4_ValueNonIncreasingInDiscountRate ==
  SecondOfDiscountPair =>
     QGe(last.ret.intrinsicValue, ret.intrinsicValue)

\* The lower discount rate clamped the terminal growth rate, and the value
\* fell strictly at the higher discount rate.
C4_Witness ==
  /\ SecondOfDiscountPair
  /\ RGt(args.params.terminalGrowthRate,
         RSub(last.args.params.discountRate, Rat(1, 100)))
  /\ QGt(last.ret.intrinsicValue, ret.intrinsicValue)

\* The second of two valuations that differ in the custom growth rate only.
SecondOfGrowthPair ==
  /\ Returned("calculateDCF")
  /\ last # Null
  /\ last.args = [args EXCEPT !.params.customGrowthRate =
                                 last.args.params.customGrowthRate]
  /\ RLt(last.args.params.customGrowthRate, args.params.customGrowthRate)

\* C5: of two valuations of the same financials with the same discountRate,
\* terminalGrowthRate and projectionYears, the one with the higher
\* customGrowthRate has an intrinsicValue >= the other, also for growth
\* rates outside [-0.10, 0.25].
C5_ValueNonDecreasingInGrowthRate ==
  SecondOfGrowthPair =>
     QGe(ret.intrinsicValue, last.ret.intrinsicValue)

\* The higher growth rate lies above the clamp range, the lower one inside
\* it, and the value rose strictly.
C5_Witness ==
  /\ SecondOfGrowthPair
  /\ RGt(args.params.customGrowthRate, Rat(25, 100))
  /\ RLt(last.args.params.customGrowthRate, Rat(25, 100))
  /\ QGt(ret.intrinsicValue, last.ret.intrinsicValue)

\* C10: for a starting free cash flow > 0 the reported terminal growth rate
\* is min(terminalGrowthRate, discountRate - 0.01); it is the growth of the
\* last projected year and the rate of the Gordon formula; the denominator
\* discountRate - terminalGrowth is >= 0.01, so the terminal value is a
\* quotient by a positive number.
C10_TerminalGrowthClamped ==
  ValuedDCF =>
     LET used == ret.assumptions.terminalGrowthRate
         years == args.params.projectionYears
         denominator == RSub(args.params.discountRate, used)
     IN  /\ used = RMin(args.params.terminalGrowthRate,
                        RSub(args.params.discountRate, Rat(1, 100)))
         /\ RGe(denominator, Rat(1, 100))
         /\ QEq(ret.projectedFcf[years],
                QMul(ret.projectedFcf[years - 1], QRat(RAdd(One, used))))
         /\ ret.terminalValue.d # <<>>
         /\ QEq(QMul(ret.terminalValue, QRat(denominator)),
                QMul(ret.projectedFcf[years], QRat(RAdd(One, used))))

\* A valuation whose terminal growth rate had to be clamped.
C10_Witness ==
  /\ ValuedDCF
  /\ RGt(args.params.terminalGrowthRate,
         RSub(args.params.discountRate, Rat(1, 100)))
  /\ RLt(ret.assumptions.terminalGrowthRate, args.params.terminalGrowthRate)

\* The customGrowthRate of the call is supplied and lies in [-0.10, 0.25].
CustomRateInRange ==
  /\ ~IsNull(args.params.customGrowthRate)
  /\ RGe(args.params.customGrowthRate, Rat(-10, 100))
  /\ RLe(args.params.customGrowthRate, Rat(25, 100))

ReportedRateInRange ==
  /\ RGe(ret.assumptions.estimatedGrowthRate, Rat(-10, 100))
  /\ RLe(ret.assumptions.estimatedGrowthRate, Rat(25, 100))

\* C11 as stated: in every result assumptions.estimatedGrowthRate lies in
\* [-0.10, 0.25], and a customGrowthRate inside that range is reported
\* unchanged.
C11_Original ==
  Returned("calculateDCF") =>
     /\ ReportedRateInRange
     /\ CustomRateInRange =>
          ret.assumptions.estimatedGrowthRate = args.params.customGrowthRate

\* C11: in every result assumptions.estimatedGrowthRate lies in
\* [-0.10, 0.25]; for a starting free cash flow > 0 a customGrowthRate
\* inside that range is reported unchanged and one outside it is reported
\* as the nearer end of the range; for a starting free cash flow <= 0 the
\* reported rate is 0 whatever customGrowthRate was supplied.
C11_ReportedGrowthRateClamped ==
  Returned("calculateDCF") =>
     /\ ReportedRateInRange
     /\ (ValuedDCF /\ CustomRateInRange) =>
          ret.assumptions.estimatedGrowthRate = args.params.customGrowthRate
     /\ (ValuedDCF /\ ~IsNull(args.params.customGrowthRate)
           /\ RLt(args.params.customGrowthRate, Rat(-10, 100))) =>
          ret.assumptions.estimatedGrowthRate = Rat(-10, 100)
     /\ (ValuedDCF /\ ~IsNull(args.params.customGrowthRate)
           /\ RGt(args.params.customGrowthRate, Rat(25, 100))) =>
          ret.assumptions.estimatedGrowthRate = Rat(25, 100)
     /\ RefusedDCF => ret.assumptions.estimatedGrowthRate = Zero

\* A company with negative free cash flow was refused although a custom
\* growth rate inside the range was supplied.
C11_Witness ==
  /\ RefusedDCF
  /\ CustomRateInRange
  /\ args.params.customGrowthRate # Zero
  /\ ret.assumptions.estimatedGrowthRate = Zero

\* The growth rate of projected year k as the result reports its ends: the
\* linear interpolation from assumptions.estimatedGrowthRate to
\* assumptions.terminalGrowthRate with fraction k / projectionYears.
InterpolatedRate(k) ==
  LET start == ret.assumptions.estimatedGrowthRate
      terminal == ret.assumptions.terminalGrowthRate
  IN  RAdd(RMul(start, RSub(One, Rat(k, args.params.projectionYears))),
           RMul(terminal, Rat(k, args.params.projectionYears)))

\* The free cash flow of the year before projected year k.
PreviousFcf(k) == IF k = 1 THEN QRat(StartingFcf) ELSE ret.projectedFcf[k - 1]

\* C12: for a starting free cash flow > 0 and projectionYears = N,
\* projectedFcf has exactly N entries, entry k is the previous year's FCF
\* times (1 + r_k) with r_k interpolated linearly from the starting growth
\* rate to the terminal growth rate with fraction k/N (so r_N is the
\* terminal growth rate), and every projected FCF and the terminal value
\* are strictly positive.
C12_ProjectionInterpolatesAndStaysPositive ==
  ValuedDCF =>
     LET years == args.params.projectionYears
     IN  /\ Len(ret.projectedFcf) = years
         /\ \A k \in 1..years :
              /\ QEq(ret.projectedFcf[k],
                     QMul(PreviousFcf(k), QRat(RAdd(One, InterpolatedRate(k)))))
              /\ ret.projectedFcf[k].d # <<>>
              /\ QGt(ret.projectedFcf[k], QZero)
         /\ InterpolatedRate(years) = ret.assumptions.terminalGrowthRate
         /\ ret.terminalValue.d # <<>>
         /\ QGt(ret.terminalValue, QZero)

\* A projection whose growth rate falls from a clamped custom rate to a
\* lower terminal rate, so that the cash flow still grows every year.
C12_Witness ==
  /\ ValuedDCF
  /\ RGt(ret.assumptions.estimatedGrowthRate, ret.assumptions.terminalGrowthRate)
  /\ RGt(ret.assumptions.terminalGrowthRate, Zero)
  /\ Len(ret.projectedFcf) = MaxProjectionYears
  /\ QGt(ret.projectedFcf[MaxProjectionYears], ret.projectedFcf[1])

\* totalDebt - cash of the most recent balance sheet (0 for a missing one).
NetDebtOfCall ==
  IF Len(args.financials.balanceSheets) = 0 THEN Zero
  ELSE RSub(args.financials.balanceSheets[1].totalDebt,
            args.financials.balanceSheets[1].cash)

\* sharesOutstanding of the most recent income statement (0 when missing).
SharesOfCall ==
  IF Len(args.financials.incomeStatements) = 0 THEN Zero
  ELSE args.financials.incomeStatements[1].sharesOutstanding

\* max(0, (enterpriseValue - netDebt) / shares) on the reported
\* enterpriseValue.
PerShareValue(shares) ==
  LET perShare == QDiv(QSub(ret.enterpriseValue, QRat(NetDebtOfCall)), QRat(shares))
  IN  IF QGt(perShare, QZero) THEN perShare ELSE QZero

EnterpriseValueIsSum ==
  QEq(ret.enterpriseValue, QAdd(ret.pvOfFcf, ret.pvOfTerminal))

\* C13 as stated: in every result intrinsicValue is
\* max(0, (enterpriseValue - (totalDebt - cash)) / sharesOutstanding) with
\* enterpriseValue = pvOfFcf + pvOfTerminal (read for the results whose
\* income statement reports a positive share count), it is never negative,
\* and it is 0 whenever net debt is at least the enterprise value.
C13_Original ==
  Returned("calculateDCF") =>
     /\ EnterpriseValueIsSum
     /\ RGt(SharesOfCall, Zero) =>
          QEq(ret.intrinsicValue, PerShareValue(SharesOfCall))
     /\ QGe(ret.intrinsicValue, QZero)
     /\ QGe(QRat(NetDebtOfCall), ret.enterpriseValue) => QIsZero(ret.intrinsicValue)

\* C13: for a starting free cash flow > 0, intrinsicValue is
\* max(0, (enterpriseValue - (totalDebt - cash)) / sharesOutstanding), with
\* sharesOutstanding replaced by 1 when it is missing or 0; for a starting
\* free cash flow <= 0 intrinsicValue is 0 whatever the net debt; in every
\* result enterpriseValue = pvOfFcf + pvOfTerminal, intrinsicValue is not
\* negative, and it is 0 whenever net debt is at least the enterprise value.
C13_PerShareValueFlooredAtZero ==
  Returned("calculateDCF") =>
     /\ EnterpriseValueIsSum
     /\ ValuedDCF =>
          QEq(ret.intrinsicValue,
              PerShareValue(IF SharesOfCall = Zero THEN One ELSE SharesOfCall))
     /\ RefusedDCF => QIsZero(ret.intrinsicValue)
     /\ QGe(ret.intrinsicValue, QZero)
     /\ QGe(QRat(NetDebtOfCall), ret.enterpriseValue) => QIsZero(ret.intrinsicValue)

\* A company with positive free cash flow whose net debt exceeds its
\* enterprise value: the floor at 0 has acted.
C13_Witness ==
  /\ ValuedDCF
  /\ QGt(ret.enterpriseValue, QZero)
  /\ QGt(QRat(NetDebtOfCall), ret.enterpriseValue)
  /\ QIsZero(ret.intrinsicValue)

---------------------------------------------------------------------------
(* analysis/graham.ts                                                      *)
(*                                                                         *)
(* A square root is irrational in general.  Math.sqrt(q) is kept as the    *)
(* record [sq |-> q]: the non-negative number whose square is q.  Money    *)
(* amounts of quotes and statements are in millions of dollars.            *)

SqrtOf(q) == [sq |-> q]

\* Mutant of GrahamMultiplier: the P/E ceiling alone.
GrahamMultiplier_PeOnly == Int2Rat(15)

\* 22.5 = 15 * 1.5
GrahamMultiplier == Rat(45, 2)

calculateGrahamNumber(eps, bookValuePerShare) ==
  IF RLe(eps, Zero) \/ RLe(bookValuePerShare, Zero)
  THEN SqrtOf(Zero)
  ELSE SqrtOf(RMul(RMul(GrahamMultiplier, eps), bookValuePerShare))

\* Mutant of GrahamGrowthRaw: the growth rate is not scaled to a whole
\* number.
GrahamGrowthRaw_Unscaled(eps, growthRate, bondYield) ==
  RDiv(RMul(RMul(eps, RAdd(Rat(17, 2), RMul(Int2Rat(2), growthRate))),
            Rat(44, 10)),
       RMul(bondYield, Int2Rat(100)))

\* eps * (8.5 + 2 * g) * 4.4 / (bondYield * 100) with g = growthRate * 100
GrahamGrowthRaw(eps, growthRate, bondYield) ==
  LET g == RMul(growthRate, Int2Rat(100))
  IN  RDiv(RMul(RMul(eps, RAdd(Rat(17, 2), RMul(Int2Rat(2), g))), Rat(44, 10)),
           RMul(bondYield, Int2Rat(100)))

calculateGrahamGrowthValue(eps, growthRate, bondYield) ==
  IF RLe(eps, Zero) \/ RLe(bondYield, Zero)
  THEN Null
  ELSE RMax(Zero, GrahamGrowthRaw(eps, growthRate, bondYield))

\* Mutant of PassesPriceToAssets: neither ratio has to be positive.
PassesPriceToAssets_Unsigned(pe, pb) ==
  RLe(pb, Rat(3, 2)) \/ RLe(RMul(pe, pb), Rat(45, 2))

\* passesPB of criterion 7, for pe = quote.pe || 0 and pb = quote.pb || 0.
PassesPriceToAssets(pe, pb) ==
  LET pePbProduct == RMul(pe, pb)
  IN  \/ RGt(pb, Zero) /\ RLe(pb, Rat(3, 2))
      \/ RGt(pePbProduct, Zero) /\ RLe(pePbProduct, Rat(45, 2))

\* The criteria with their name and outcome; the description and detail
\* texts are left out.
evaluateDefensiveCriteria(financials, quote) ==
  LET incomeStatements == financials.incomeStatements
      balanceSheets == financials.balanceSheets
      currentRatio ==
        IF Len(balanceSheets) = 0 THEN Zero
        ELSE RDiv(balanceSheets[1].currentAssets,
                  LatestOr(balanceSheets, "currentLiabilities", One))
      positiveEarningsYears ==
        Cardinality({i \in 1..Len(incomeStatements) :
                       RGt(incomeStatements[i].netIncome, Zero)})
      years == Min2(Len(incomeStatements) - 1, 5)
      oldestEps == OrZero(incomeStatements[years + 1].eps)
      newestEps == OrZero(incomeStatements[1].eps)
      epsGrowth ==
        IF Len(incomeStatements) >= 3 /\ RGt(oldestEps, Zero)
           /\ RGt(newestEps, Zero)
        THEN RDiv(RSub(newestEps, oldestEps), oldestEps)
        ELSE Zero
      pe == OrZero(quote.pe)
      pb == OrZero(quote.pb)
  IN  << [name |-> "Adequate Size",
          passed |-> RGe(quote.marketCap, Int2Rat(500))],
         [name |-> "Strong Financial Condition",
          passed |-> RGe(currentRatio, Int2Rat(2))],
         [name |-> "Earnings Stability",
          passed |-> positiveEarningsYears >= Min2(Len(incomeStatements), 5)],
         [name |-> "Dividend Record",
          passed |-> ~IsNull(quote.dividendYield)
                     /\ RGt(quote.dividendYield, Zero)],
         [name |-> "Earnings Growth",
          passed |-> RGe(epsGrowth, Rat(33, 100))],
         [name |-> "Moderate P/E Ratio",
          passed |-> RGt(pe, Zero) /\ RLe(pe, Int2Rat(15))],
         [name |-> "Moderate Price to Assets",
          passed |-> PassesPriceToAssets(pe, pb)] >>

\* Mutant of GrowthQualifies: a flat or falling EPS qualifies too.
GrowthQualifies_AnyRate(growthRate) == ~IsNull(growthRate)

\* growthRate !== null && growthRate > 0
GrowthQualifies(growthRate) == ~IsNull(growthRate) /\ RGt(growthRate, Zero)

calculateGrahamValuation(financials, quote, bondYield) ==
  LET incomeStatements == financials.incomeStatements
      balanceSheets == financials.balanceSheets
      eps == LatestOr(incomeStatements, "eps", Zero)
      bookValuePerShare == LatestOr(balanceSheets, "bookValuePerShare", Zero)
      grahamNumber == calculateGrahamNumber(eps, bookValuePerShare)
      years == Min2(Len(incomeStatements) - 1, 5)
      oldestEps == incomeStatements[years + 1].eps
      newestEps == incomeStatements[1].eps
      cagr ==
        IF Len(incomeStatements) >= 3 /\ RGt(oldestEps, Zero)
           /\ RGt(newestEps, Zero)
        THEN calculateCAGR(oldestEps, newestEps, years)
        ELSE CagrNull
      growthRate == IF CagrIsNull(cagr) THEN Null ELSE CagrValue(cagr)
      grahamGrowthValue ==
        IF GrowthQualifies(growthRate)
        THEN calculateGrahamGrowthValue(eps, growthRate, bondYield)
        ELSE Null
      defensiveCriteria == evaluateDefensiveCriteria(financials, quote)
  IN  [grahamNumber |-> grahamNumber,
       grahamGrowthValue |-> grahamGrowthValue,
       eps |-> eps,
       bookValuePerShare |-> bookValuePerShare,
       growthRate |-> growthRate,
       bondYield |-> bondYield,
       passesDefensiveCriteria |->
         \A i \in 1..Len(defensiveCriteria) : defensiveCriteria[i].passed,
       defensiveCriteria |-> defensiveCriteria]

---------------------------------------------------------------------------
(* The Graham engine as a state machine: one call of one of its three      *)
(* exported functions.                                                     *)

EpsValues == {Int2Rat(-2), Zero, Rat(1, 2), Int2Rat(5), Int2Rat(10)}

BookValues == {Int2Rat(-3), Zero, Int2Rat(5), Int2Rat(9), Int2Rat(30)}

GrahamGrowthRates ==
  {Rat(-1, 2), Rat(-1, 10), Rat(-17, 400), Zero, Rat(1, 20), Rat(1, 10),
   Rat(3, 20), Rat(1, 2)}

BondYields == {Rat(-1, 100), Zero, Rat(3, 100), Rat(4, 100), Rat(5, 100)}

\* Statements of a company, most recent year first: EPS per year, ten
\* million shares, and the same balance sheet every year.
GrahamStatementsOf(epss, balance) ==
  [incomeStatements |->
     [i \in 1..Len(epss) |->
        [eps |-> epss[i], netIncome |-> RMul(epss[i], Int2Rat(10))]],
   balanceSheets |-> [i \in 1..Len(epss) |-> balance]]

\* EPS histories: none, too short, flat, +5% a year, +50% a year, -10% a
\* year, a loss now, a loss at the start of the window, and seven years
\* doubling every year after a better year that lies outside the window.
EpsHistories ==
  { <<>>,
    <<Int2Rat(5), Int2Rat(4)>>,
    <<Int2Rat(4), Int2Rat(4), Int2Rat(4)>>,
    <<Rat(441, 100), Rat(42, 10), Int2Rat(4)>>,
    <<Int2Rat(9), Int2Rat(6), Int2Rat(4)>>,
    <<Rat(324, 100), Rat(36, 10), Int2Rat(4)>>,
    <<Int2Rat(-1), Int2Rat(2), Int2Rat(3)>>,
    <<Int2Rat(3), Int2Rat(2), Int2Rat(-1)>>,
    <<Int2Rat(32), Int2Rat(16), Int2Rat(8), Int2Rat(4), Int2Rat(2),
      Int2Rat(1), Int2Rat(50)>> }

GrahamBalances ==
  { [bookValuePerShare |-> Int2Rat(30), currentAssets |-> Int2Rat(200),
     currentLiabilities |-> Int2Rat(100)],
    [bookValuePerShare |-> Int2Rat(-3), currentAssets |-> Int2Rat(150),
     currentLiabilities |-> Int2Rat(100)],
    [bookValuePerShare |-> Int2Rat(9), currentAssets |-> Int2Rat(100),
     currentLiabilities |-> Zero] }

\* quote.pe and quote.pb: number | null.
PeValues == {Null, Int2Rat(-10), Zero, Int2Rat(10), Int2Rat(15), Int2Rat(20)}

PbValues == {Null, Int2Rat(-1), Zero, One, Rat(3, 2), Int2Rat(2)}

GrahamQuotes ==
  {[marketCap |-> mc, dividendYield |-> dy, pe |-> pe, pb |-> pb] :
     mc \in {Int2Rat(300), Int2Rat(500)},
     dy \in {Null, Zero, Rat(2, 100)},
     pe \in PeValues, pb \in PbValues}

InitGraham ==
  /\ phase = "called"
  /\ ret = Null
  /\ last = Null
  /\ \/ \E eps \in EpsValues, bvps \in BookValues :
          args = [fn |-> "calculateGrahamNumber", eps |-> eps,
                  bookValuePerShare |-> bvps]
     \/ \E eps \in EpsValues, g \in GrahamGrowthRates, y \in BondYields :
          args = [fn |-> "calculateGrahamGrowthValue", eps |-> eps,
                  growthRate |-> g, bondYield |-> y]
     \/ \E h \in EpsHistories, b \in GrahamBalances, q \in GrahamQuotes,
           y \in {Zero, Rat(4, 100)} :
          args = [fn |-> "calculateGrahamValuation",
                  financials |-> GrahamStatementsOf(h, b),
                  quote |-> q, bondYield |-> y]

CallCalculateGrahamNumber ==
  /\ phase = "called"
  /\ args.fn = "calculateGrahamNumber"
  /\ ret' = calculateGrahamNumber(args.eps, args.bookValuePerShare)
  /\ phase' = "returned"
  /\ UNCHANGED <<args, last>>

CallCalculateGrahamGrowthValue ==
  /\ phase = "called"
  /\ args.fn = "calculateGrahamGrowthValue"
  /\ ret' = calculateGrahamGrowthValue(args.eps, args.growthRate,
                                       args.bondYield)
  /\ phase' = "returned"
  /\ UNCHANGED <<args, last>>

CallCalculateGrahamValuation ==
  /\ phase = "called"
  /\ args.fn = "calculateGrahamValuation"
  /\ ret' = calculateGrahamValuation(args.financials, args.quote,
                                     args.bondYield)
  /\ phase' = "returned"
  /\ UNCHANGED <<args, last>>

NextGraham ==
  \/ CallCalculateGrahamNumber
  \/ CallCalculateGrahamGrowthValue
  \/ CallCalculateGrahamValuation

SpecGraham == InitGraham /\ [][NextGraham]_vars

---------------------------------------------------------------------------
(* Claims about the Graham engine.                                         *)

\* C14: calculateGrahamNumber returns exactly 0 whenever eps <= 0 or
\* bookValuePerShare <= 0, and otherwise the positive number whose square
\* is 22.5 * eps * bookValuePerShare.
C14_GrahamNumberIsRootOrZero ==
  Returned("calculateGrahamNumber") =>
    IF RLe(args.eps, Zero) \/ RLe(args.bookValuePerShare, Zero)
    THEN ret = SqrtOf(Zero)
    ELSE /\ RGt(ret.sq, Zero)
         /\ RMul(ret.sq, Int2Rat(2)) =
              RMul(Int2Rat(45), RMul(args.eps, args.bookValuePerShare))

\* Witness of C14: the Graham number of EPS 5 and book value 30 is the root
\* of 3375.
C14_Witness ==
  /\ Returned("calculateGrahamNumber")
  /\ args.eps = Int2Rat(5)
  /\ args.bookValuePerShare = Int2Rat(30)
  /\ ret = SqrtOf(Int2Rat(3375))

\* The value that the formula of the Graham growth value gives.
GrahamGrowthFormula(eps, g, y) ==
  RMax(Zero,
       RDiv(RMul(RMul(eps, RAdd(Rat(17, 2), RMul(Int2Rat(200), g))),
                 Rat(22, 5)),
            RMul(Int2Rat(100), y)))

\* C15: calculateGrahamGrowthValue returns null whenever eps <= 0 or
\* y <= 0; otherwise max(0, eps * (8.5 + 2 * (100 * g)) * 4.4 / (100 * y));
\* a non-null result is never negative, no lower for a higher g and no
\* higher for a higher y.
C15_GrowthValueFormulaAndMonotone ==
  Returned("calculateGrahamGrowthValue") =>
    IF RLe(args.eps, Zero) \/ RLe(args.bondYield, Zero)
    THEN ret = Null
    ELSE /\ ret = GrahamGrowthFormula(args.eps, args.growthRate, args.bondYield)
         /\ ~IsNull(ret) /\ RGe(ret, Zero)
         /\ \A g \in GrahamGrowthRates :
              RGe(g, args.growthRate) =>
                RGe(calculateGrahamGrowthValue(args.eps, g, args.bondYield),
                    ret)
         /\ \A y \in BondYields :
              RGt(y, Zero) /\ RGe(y, args.bondYield) =>
                RLe(calculateGrahamGrowthValue(args.eps, args.growthRate, y),
                    ret)

\* Witness of C15: EPS 5 growing 10% a year at a 4% bond yield is worth
\* 156.75.
C15_Witness ==
  /\ Returned("calculateGrahamGrowthValue")
  /\ args.eps = Int2Rat(5)
  /\ args.growthRate = Rat(1, 10)
  /\ args.bondYield = Rat(4, 100)
  /\ ret = Rat(15675, 100)

\* The income statements of a returned Graham valuation, and its look-back
\* window min(years - 1, 5).
GrahamIncome == args.financials.incomeStatements

GrahamWindow == Min2(Len(GrahamIncome) - 1, 5)

\* No growth value can be given: fewer than 3 income statements, an EPS
\* <= 0 at either end of the window, or a CAGR <= 0 (the EPS did not rise).
GrowthUnavailable ==
  \/ Len(GrahamIncome) < 3
  \/ RLe(GrahamIncome[GrahamWindow + 1].eps, Zero)
  \/ RLe(GrahamIncome[1].eps, Zero)
  \/ RLe(GrahamIncome[1].eps, GrahamIncome[GrahamWindow + 1].eps)

\* C16: calculateGrahamValuation gives grahamGrowthValue null (not 0)
\* whenever fewer than 3 income statements exist, or the EPS at either end
\* of the look-back window of min(years - 1, 5) years is <= 0, or the EPS
\* CAGR is <= 0; it is non-null only when that CAGR is strictly positive;
\* the grahamNumber is computed whatever this outcome is.
C16_GrowthValueNullUnlessGrowing ==
  Returned("calculateGrahamValuation") =>
    /\ GrowthUnavailable => ret.grahamGrowthValue = Null
    /\ ret.grahamGrowthValue # Null =>
         /\ ~GrowthUnavailable
         /\ ~IsNull(ret.growthRate) /\ RGt(ret.growthRate, Zero)
         /\ RPow(RAdd(One, ret.growthRate), GrahamWindow) =
              RDiv(GrahamIncome[1].eps, GrahamIncome[GrahamWindow + 1].eps)
    /\ ret.grahamNumber = calculateGrahamNumber(ret.eps, ret.bookValuePerShare)
    /\ ret.eps = LatestOr(GrahamIncome, "eps", Zero)
    /\ ret.bookValuePerShare =
         LatestOr(args.financials.balanceSheets, "bookValuePerShare", Zero)

\* Witness of C16: a company with a flat EPS of 4 and book value 30 has a
\* Graham number and no growth value.
C16_Witness ==
  /\ Returned("calculateGrahamValuation")
  /\ Len(GrahamIncome) = 3
  /\ ret.growthRate = Zero
  /\ ret.grahamGrowthValue = Null
  /\ ret.grahamNumber = SqrtOf(Int2Rat(2700))

\* The criteria of a returned Graham valuation, and the quote's ratios with
\* a missing one counted as 0.
CriteriaOf == ret.defensiveCriteria

QuotePe == OrZero(args.quote.pe)

QuotePb == OrZero(args.quote.pb)

SevenCriteria ==
  /\ Len(CriteriaOf) = 7
  /\ CriteriaOf[6].passed <=> (RGt(QuotePe, Zero) /\ RLe(QuotePe, Int2Rat(15)))
  /\ ret.passesDefensiveCriteria <=> \A i \in 1..7 : CriteriaOf[i].passed

\* C17 as stated: criterion 7 passes iff P/B <= 1.5 or P/E * P/B <= 22.5,
\* also for a missing, zero or negative ratio.
C17_Original ==
  Returned("calculateGrahamValuation") =>
    /\ SevenCriteria
    /\ CriteriaOf[7].passed <=>
         (RLe(QuotePb, Rat(3, 2)) \/ RLe(RMul(QuotePe, QuotePb), Rat(45, 2)))

\* C17: exactly seven criteria are returned for every input; criterion 6
\* passes iff 0 < P/E <= 15; criterion 7 passes iff 0 < P/B <= 1.5 or
\* 0 < P/E * P/B <= 22.5, a missing ratio counting as 0;
\* passesDefensiveCriteria is true iff all seven criteria pass.
C17_SevenCriteriaWithPositiveRatios ==
  Returned("calculateGrahamValuation") =>
    /\ SevenCriteria
    /\ CriteriaOf[7].passed <=>
         \/ RGt(QuotePb, Zero) /\ RLe(QuotePb, Rat(3, 2))
         \/ /\ RGt(RMul(QuotePe, QuotePb), Zero)
            /\ RLe(RMul(QuotePe, QuotePb), Rat(45, 2))

\* Witness of C17: a quote with P/E 10 and no P/B passes criterion 6 and
\* fails criterion 7.
C17_Witness ==
  /\ Returned("calculateGrahamValuation")
  /\ args.quote.pe = Int2Rat(10)
  /\ args.quote.pb = Null
  /\ CriteriaOf[6].passed
  /\ ~CriteriaOf[7].passed
  /\ ~ret.passesDefensiveCriteria

\* C19: for every input, each of the five dimension scores of analyzeMoat
\* lies in [1, 5]; the cost-advantage score is >= 1 even when the
\* declining-trend penalty is applied to the base score; overallScore lies
\* in [1, 5] too.
C19_ScoresWithinOneAndFive ==
  Returned("analyzeMoat") =>
    LET scores == DimensionScoresOf(ret)
    IN  /\ \A i \in 1..5 :
             RGe(scores[i], One) /\ RLe(scores[i], Int2Rat(5))
        /\ RGe(ret.overallScore, One) /\ RLe(ret.overallScore, Int2Rat(5))

\* Witness of C19: a company with a low operating margin that declined over
\* three years keeps a cost-advantage score of 1.
C19_Witness ==
  /\ Returned("analyzeMoat")
  /\ Len(args.financials.incomeStatements) = 3
  /\ ret.dimensions.costAdvantage.evidence =
       <<"Low operating margin indicates no cost advantage",
         "Operating margins declining - cost advantage may be eroding">>
  /\ ret.dimensions.costAdvantage.score = One

\* The second of two invocations of analyzeMoat with equal arguments has
\* returned.
SecondOfEqualCalls ==
  /\ Returned("analyzeMoat")
  /\ last # Null
  /\ last.args = args

\* C20 as stated, for analyzeMoat: two invocations with equal arguments,
\* made at any times, return results equal in every field.
C20_Original == SecondOfEqualCalls => ret = last.ret

\* Two invocations of analyzeMoat with equal arguments returned results
\* that differ in analyzedAt and in nothing else.
C20_ResultsDifferInAnalyzedAt ==
  /\ SecondOfEqualCalls
  /\ ret.analyzedAt # last.ret.analyzedAt
  /\ [ret EXCEPT !.analyzedAt = last.ret.analyzedAt] = last.ret

---------------------------------------------------------------------------
(* calculateFinancialRatios as a state machine: one call on the statements *)
(* of a company.                                                           *)

LongHistoryYears == 7

\* Histories longer than the five-year window: the most recent year, the
\* year five years back and all other years vary.
LongHistories ==
  { [i \in 1..LongHistoryYears |-> IF i = 1 THEN a ELSE IF i = 6 THEN b ELSE c] :
      a \in YearProfiles, b \in YearProfiles, c \in YearProfiles }

\* The statements with only the k most recent cash-flow statements.
WithCashFlowYears(financials, k) ==
  [financials EXCEPT
     !.cashFlowStatements = SubSeq(@, 1, Min2(k, Len(@)))]

RatioInputs ==
  {FinancialsOf(h) : h \in Histories \cup LongHistories}
  \cup {WithCashFlowYears(FinancialsOf(h), 2) : h \in LongHistories}

InitRatios ==
  /\ phase = "called"
  /\ ret = Null
  /\ last = Null
  /\ \E f \in RatioInputs :
       args = [fn |-> "calculateFinancialRatios", financials |-> f,
               quote |-> Null]

CallCalculateFinancialRatios ==
  /\ phase = "called"
  /\ args.fn = "calculateFinancialRatios"
  /\ ret' = calculateFinancialRatios(args.financials, args.quote)
  /\ phase' = "returned"
  /\ UNCHANGED <<args, last>>

NextRatios == CallCalculateFinancialRatios

SpecRatios == InitRatios /\ [][NextRatios]_vars

---------------------------------------------------------------------------
(* Claims about the financial ratios.                                      *)

\* The CAGR of one field over n = min(availableYears - 1, 5) years between
\* the record n years back and the most recent record; null when a value is
\* not strictly positive or n is 0.
GrowthOver(statements, field) ==
  LET n == Min2(Len(statements) - 1, 5)
  IN  IF n <= 0 THEN CagrNull
      ELSE IF RLe(statements[n + 1][field], Zero)
              \/ RLe(statements[1][field], Zero)
      THEN CagrNull
      ELSE [start |-> statements[n + 1][field], end |-> statements[1][field],
            years |-> n]

\* C18 as stated: each growth field (revenueGrowth5Y, epsGrowth5Y,
\* fcfGrowth5Y) is the CAGR over n = min(availableYears - 1, 5) years
\* between the record n years back and the most recent record, and is null
\* whenever that start value or end value is not strictly positive or n is
\* 0.
C18_Original ==
  Returned("calculateFinancialRatios") =>
    /\ ret.revenueGrowth5Y =
         GrowthOver(args.financials.incomeStatements, "revenue")
    /\ ret.epsGrowth5Y = GrowthOver(args.financials.incomeStatements, "eps")
    /\ ret.fcfGrowth5Y =
         GrowthOver(args.financials.cashFlowStatements, "freeCashFlow")

\* What holds of C18: the revenue growth field is as stated.
C18_RevenueGrowthNullUnlessPositive ==
  Returned("calculateFinancialRatios") =>
    ret.revenueGrowth5Y =
      GrowthOver(args.financials.incomeStatements, "revenue")

\* A company that went from a loss per share of 1 to earnings of 4 in two
\* years is given an EPS growth rate, computed from 0.01.
C18_FlooredEpsGrowth ==
  /\ Returned("calculateFinancialRatios")
  /\ Len(args.financials.incomeStatements) = 3
  /\ args.financials.incomeStatements[3].eps = Int2Rat(-1)
  /\ args.financials.incomeStatements[1].eps = Int2Rat(4)
  /\ ret.epsGrowth5Y = [start |-> Rat(1, 100), end |-> Int2Rat(4), years |-> 2]

---------------------------------------------------------------------------
(* Providers: how a cash-flow statement reaches the engine.                *)
(*                                                                         *)
(* The Alpha Vantage and Yahoo providers compute freeCashFlow from the     *)
(* reported operating cash flow and capital expenditure; the Finnhub       *)
(* provider copies a metric.  A field missing from a report is Null.       *)

\* valuation.ts asks for five years: provider.getFinancials(ticker, 5).
FetchYears == 5

\* Math.abs
RAbs(r) == IF RLt(r, Zero) THEN RSub(Zero, r) ELSE r

\* AlphaVantageProvider.parseCashFlowStatements; parseNumber turns a missing
\* value into 0.
parseCashFlowStatements(reports, years) ==
  [i \in 1..Min2(years, Len(reports)) |->
     LET operatingCashFlow == OrZero(reports[i].operatingCashflow)
         capitalExpenditure == RAbs(OrZero(reports[i].capitalExpenditures))
     IN  [operatingCashFlow |-> operatingCashFlow,
          capitalExpenditure |-> capitalExpenditure,
          freeCashFlow |-> RSub(operatingCashFlow, capitalExpenditure)]]

\* AlphaVantageProvider.fetchFinancials; the income statements and balance
\* sheets of the response are taken as parsed.
AlphaVantageFetchFinancials(response, years) ==
  [incomeStatements |->
     SubSeq(response.incomeStatements, 1,
            Min2(years, Len(response.incomeStatements))),
   balanceSheets |->
     SubSeq(response.balanceSheets, 1,
            Min2(years, Len(response.balanceSheets))),
   cashFlowStatements |->
     parseCashFlowStatements(response.cashFlowReports, years)]

\* FinnhubProvider.fetchFinancials: one statement per entry of the EPS
\* series; operating cash flow and capital expenditure are 0 and
\* freeCashFlow is the metric freeCashFlowPerShareTTM.
FinnhubFetchFinancials(response, years) ==
  LET epsData == response.epsData
      revenueData == response.revenueData
      count == Min2(years, Len(epsData))
  IN  [incomeStatements |->
         [i \in 1..count |->
            [revenue |-> IF i <= Len(revenueData) THEN OrZero(revenueData[i])
                         ELSE Zero,
             eps |-> OrZero(epsData[i]),
             sharesOutstanding |-> Zero]],
       balanceSheets |->
         [i \in 1..count |-> [totalDebt |-> Zero, cash |-> Zero]],
       cashFlowStatements |->
         [i \in 1..count |->
            [operatingCashFlow |-> Zero,
             capitalExpenditure |-> Zero,
             freeCashFlow |-> OrZero(response.freeCashFlowPerShareTTM)]]]

\* Cash-flow reports of Alpha Vantage: capital expenditure is reported with
\* either sign.
CashFlowReports ==
  {[operatingCashflow |-> o, capitalExpenditures |-> c] :
     o \in {Null, Int2Rat(100), Int2Rat(120)},
     c \in {Int2Rat(-30), Int2Rat(30), Int2Rat(150)}}

AlphaVantageResponses ==
  {[incomeStatements |-> Steady.incomeStatements \o Steady.incomeStatements,
    balanceSheets |-> Steady.balanceSheets \o Steady.balanceSheets,
    cashFlowReports |-> r] :
     r \in UNION {[1..k -> CashFlowReports] : k \in 1..2}}

FinnhubResponses ==
  {[epsData |-> [i \in 1..k |-> Int2Rat(5)],
    revenueData |-> [i \in 1..r |-> Int2Rat(1000)],
    freeCashFlowPerShareTTM |-> m] :
     k \in 0..3, r \in 2..3, m \in {Null, Int2Rat(-1), Int2Rat(2), Int2Rat(7)}}

InitFetchDCF ==
  /\ phase = "fetching"
  /\ ret = Null
  /\ last = Null
  /\ \/ \E r \in AlphaVantageResponses :
          args = [fn |-> "fetchFinancials", provider |-> "alpha-vantage",
                  response |-> r]
     \/ \E r \in FinnhubResponses :
          args = [fn |-> "fetchFinancials", provider |-> "finnhub",
                  response |-> r]

\* calculateIntrinsicValue: the statements fetched from the provider are
\* handed to calculateDCF with the default parameters.
FetchFromAlphaVantage ==
  /\ phase = "fetching"
  /\ args.provider = "alpha-vantage"
  /\ args' = DcfCall(AlphaVantageFetchFinancials(args.response, FetchYears),
                     Rat(10, 100), Rat(3, 100), MinProjectionYears, Null)
  /\ phase' = "called"
  /\ UNCHANGED <<ret, last>>

FetchFromFinnhub ==
  /\ phase = "fetching"
  /\ args.provider = "finnhub"
  /\ args' = DcfCall(FinnhubFetchFinancials(args.response, FetchYears),
                     Rat(10, 100), Rat(3, 100), MinProjectionYears, Null)
  /\ phase' = "called"
  /\ UNCHANGED <<ret, last>>

NextFetchDCF == FetchFromAlphaVantage \/ FetchFromFinnhub \/ CallCalculateDCF

SpecFetchDCF == InitFetchDCF /\ [][NextFetchDCF]_vars

---------------------------------------------------------------------------
(* Claims about the free cash flow the engine uses.                        *)

\* Operating cash flow less capital expenditure of the most recent
\* cash-flow statement handed to calculateDCF.
RecomputedFcf ==
  RSub(args.financials.cashFlowStatements[1].operatingCashFlow,
       args.financials.cashFlowStatements[1].capitalExpenditure)

\* C21 as stated, for the DCF starting FCF: the free cash flow the engine
\* uses for a fiscal year equals that year's operatingCashFlow -
\* capitalExpenditure, whatever freeCashFlow the record carries.
C21_Original ==
  (Returned("calculateDCF") /\ Len(args.financials.cashFlowStatements) > 0) =>
    IF RGt(RecomputedFcf, Zero)
    THEN ret.assumptions.startingFcf = RecomputedFcf
    ELSE ValuesZeroed /\ ret.assumptions.startingFcf = Zero

\* A Finnhub record with operatingCashFlow 0, capitalExpenditure 0 and
\* freeCashFlow 7 was valued from a starting free cash flow of 7.
C21_UpstreamFcfUsed ==
  /\ Returned("calculateDCF")
  /\ Len(args.financials.cashFlowStatements) > 0
  /\ RecomputedFcf = Zero
  /\ ret.assumptions.startingFcf = Int2Rat(7)
  /\ QGt(ret.intrinsicValue, QZero)

---------------------------------------------------------------------------
(* analysis/margin-of-safety.ts: target price and required drop.           *)
(*                                                                         *)
(* A JavaScript division by 0 gives Infinity, -Infinity or NaN; these are  *)
(* kept as strings.  An omitted margin argument is Null.                   *)

JsDiv(a, b) ==
  IF b = Zero
  THEN IF RGt(a, Zero) THEN "Infinity"
       ELSE IF RLt(a, Zero) THEN "-Infinity" ELSE "NaN"
  ELSE RDiv(a, b)

DefaultDesiredMargin == Rat(25, 100)

\* Mutant of calculateTargetPrice: the margin is added to the value.
calculateTargetPrice_Premium(intrinsicValue, desiredMargin) ==
  LET margin == IF IsNull(desiredMargin) THEN DefaultDesiredMargin
                ELSE desiredMargin
  IN  IF RLe(intrinsicValue, Zero) THEN Zero
      ELSE RMul(intrinsicValue, RAdd(One, margin))

calculateTargetPrice(intrinsicValue, desiredMargin) ==
  LET margin == IF IsNull(desiredMargin) THEN DefaultDesiredMargin
                ELSE desiredMargin
  IN  IF RLe(intrinsicValue, Zero) THEN Zero
      ELSE RMul(intrinsicValue, RSub(One, margin))

calculateRequiredDrop(currentPrice, intrinsicValue, requiredMargin) ==
  LET targetPrice == calculateTargetPrice(intrinsicValue, requiredMargin)
  IN  [targetPrice |-> targetPrice,
       percentDrop |-> JsDiv(RSub(currentPrice, targetPrice), currentPrice),
       isAlreadyAdequate |-> RLe(currentPrice, targetPrice)]

TargetPrices ==
  {Int2Rat(-5), Zero, Int2Rat(60), Int2Rat(75), Int2Rat(100), Int2Rat(150)}

TargetValues == {Int2Rat(-5), Zero, Int2Rat(40), Int2Rat(100), Rat(399, 4)}

DesiredMargins == {Null, Zero, Rat(1, 4), Rat(1, 2), One, Rat(3, 2)}

InitTarget ==
  /\ phase = "called"
  /\ ret = Null
  /\ last = Null
  /\ \/ \E v \in TargetValues, m \in DesiredMargins :
          args = [fn |-> "calculateTargetPrice", intrinsicValue |-> v,
                  desiredMargin |-> m]
     \/ \E p \in TargetPrices, v \in TargetValues, m \in DesiredMargins :
          args = [fn |-> "calculateRequiredDrop", currentPrice |-> p,
                  intrinsicValue |-> v, requiredMargin |-> m]

CallCalculateTargetPrice ==
  /\ phase = "called"
  /\ args.fn = "calculateTargetPrice"
  /\ ret' = calculateTargetPrice(args.intrinsicValue, args.desiredMargin)
  /\ phase' = "returned"
  /\ UNCHANGED <<args, last>>

CallCalculateRequiredDrop ==
  /\ phase = "called"
  /\ args.fn = "calculateRequiredDrop"
  /\ ret' = calculateRequiredDrop(args.currentPrice, args.intrinsicValue,
                                  args.requiredMargin)
  /\ phase' = "returned"
  /\ UNCHANGED <<args, last>>

NextTarget == CallCalculateTargetPrice \/ CallCalculateRequiredDrop

SpecTarget == InitTarget /\ [][NextTarget]_vars

---------------------------------------------------------------------------
(* Claims about the target price.                                          *)

\* intrinsicValue * (1 - m) for intrinsicValue > 0, with m = 0.25 when
\* omitted, and 0 for intrinsicValue <= 0.
TargetFormula(intrinsicValue, m) ==
  IF RGt(intrinsicValue, Zero)
  THEN RSub(intrinsicValue,
            RMul(intrinsicValue, IF IsNull(m) THEN Rat(1, 4) ELSE m))
  ELSE Zero

\* C22: calculateTargetPrice(intrinsicValue, m) returns
\* intrinsicValue * (1 - m) for intrinsicValue > 0 (m defaults to 0.25) and
\* 0 for intrinsicValue <= 0; calculateRequiredDrop(price, intrinsicValue,
\* m) returns that target price, percentDrop = (price - targetPrice) / price
\* (the JavaScript quotient, not finite for price = 0) and
\* isAlreadyAdequate = true iff price <= targetPrice.
C22_TargetPriceAndRequiredDrop ==
  /\ Returned("calculateTargetPrice") =>
       ret = TargetFormula(args.intrinsicValue, args.desiredMargin)
  /\ Returned("calculateRequiredDrop") =>
       LET target == TargetFormula(args.intrinsicValue, args.requiredMargin)
       IN  /\ ret.targetPrice = target
           /\ ret.isAlreadyAdequate <=> RLe(args.currentPrice, target)
           /\ IF args.currentPrice = Zero
              THEN ret.percentDrop \in {"Infinity", "-Infinity", "NaN"}
              ELSE RMul(ret.percentDrop, args.currentPrice) =
                     RSub(args.currentPrice, target)

\* Witness of C22: a stock at 150 worth 100 has the default target price 75
\* and must drop by half.
C22_Witness ==
  /\ Returned("calculateRequiredDrop")
  /\ args.currentPrice = Int2Rat(150)
  /\ args.intrinsicValue = Int2Rat(100)
  /\ args.requiredMargin = Null
  /\ ret = [targetPrice |-> Int2Rat(75), percentDrop |-> Rat(1, 2),
            isAlreadyAdequate |-> FALSE]

---------------------------------------------------------------------------
(* analysis/dcf.ts: dcfSensitivity.                                        *)

SensitivityOffsets ==
  <<Rat(-2, 100), Rat(-1, 100), Zero, Rat(1, 100), Rat(2, 100)>>

\* baseParams.customGrowthRate || 0.05: undefined and 0 both give 0.05.
SensitivityBaseGrowth(customGrowthRate) ==
  IF IsNull(customGrowthRate) \/ customGrowthRate = Zero THEN Rat(5, 100)
  ELSE customGrowthRate

dcfSensitivity(financials, quote, baseParams) ==
  LET discountRates ==
        [i \in 1..5 |-> RAdd(baseParams.discountRate, SensitivityOffsets[i])]
      growthRates ==
        [j \in 1..5 |->
           RAdd(SensitivityBaseGrowth(baseParams.customGrowthRate),
                SensitivityOffsets[j])]
  IN  [discountRates |-> discountRates,
       growthRates |-> growthRates,
       values |->
         [i \in 1..5 |->
            [j \in 1..5 |->
               calculateDCF(financials, quote,
                            [baseParams EXCEPT
                               !.discountRate = discountRates[i],
                               !.customGrowthRate = growthRates[j]]
                           ).intrinsicValue]]]

SensitivityCompanies == {NoRecords, Steady, Grower, Shrinker, ZeroFcf}

SensitivityDiscountRates ==
  {Rat(3, 100), Rat(5, 100), Rat(8, 100), Rat(10, 100), Rat(12, 100)}

SensitivityGrowthRates == {Null, Zero, Rat(5, 100), Rat(10, 100)}

InitSensitivity ==
  /\ phase = "called"
  /\ ret = Null
  /\ last = Null
  /\ \E c \in SensitivityCompanies, dr \in SensitivityDiscountRates,
        tg \in {Zero, Rat(3, 100)}, g \in SensitivityGrowthRates :
       args = [DcfCall(c, dr, tg, MinProjectionYears, g)
                 EXCEPT !.fn = "dcfSensitivity"]

CallDcfSensitivity ==
  /\ phase = "called"
  /\ args.fn = "dcfSensitivity"
  /\ ret' = dcfSensitivity(args.financials, args.quote, args.params)
  /\ phase' = "returned"
  /\ UNCHANGED <<args, last>>

NextSensitivity == CallDcfSensitivity

SpecSensitivity == InitSensitivity /\ [][NextSensitivity]_vars

---------------------------------------------------------------------------
(* Claims about the sensitivity grid.                                      *)

\* The value calculateDCF returns for the base parameters of the call.
PointEstimate == calculateDCF(args.financials, args.quote, args.params)

\* The growth rate the point estimate starts from: the custom rate when
\* one is supplied, the rate estimated from history otherwise.
PointEstimateGrowth ==
  IF IsNull(args.params.customGrowthRate)
  THEN estimateGrowthRate(args.financials)
  ELSE args.params.customGrowthRate

GridAxesAndCells(baseGrowth) ==
  /\ Len(ret.discountRates) = 5 /\ Len(ret.growthRates) = 5
  /\ Len(ret.values) = 5
  /\ \A i \in 1..5 :
       /\ Len(ret.values[i]) = 5
       /\ ret.discountRates[i] =
            RAdd(args.params.discountRate, SensitivityOffsets[i])
       /\ ret.growthRates[i] = RAdd(baseGrowth, SensitivityOffsets[i])
  /\ \A i \in 1..5, j \in 1..5 :
       ret.values[i][j] =
         calculateDCF(args.financials, args.quote,
                      [args.params EXCEPT
                         !.discountRate = ret.discountRates[i],
                         !.customGrowthRate = ret.growthRates[j]]
                     ).intrinsicValue

\* C23 as stated: the growth axis is the base growth rate of the point
\* estimate plus the offsets, each cell is the intrinsicValue of calculateDCF
\* for its pair, and the centre cell equals the intrinsicValue calculateDCF
\* returns for the base parameters, also without a customGrowthRate or with
\* customGrowthRate = 0.
C23_Original ==
  Returned("dcfSensitivity") =>
    /\ GridAxesAndCells(PointEstimateGrowth)
    /\ QEq(ret.values[3][3], PointEstimate.intrinsicValue)

\* What holds of C23: the axes and cells are as stated around the rate
\* customGrowthRate || 0.05.
C23_GridAroundFallbackRate ==
  Returned("dcfSensitivity") =>
    GridAxesAndCells(IF IsNull(args.params.customGrowthRate)
                        \/ args.params.customGrowthRate = Zero
                     THEN Rat(5, 100) ELSE args.params.customGrowthRate)

\* The grid of a company valued with customGrowthRate = 0 is centred on a
\* growth rate of 5% and its centre cell exceeds the point estimate.
C23_CentreOffPointEstimate ==
  /\ Returned("dcfSensitivity")
  /\ args.params.customGrowthRate = Zero
  /\ ret.growthRates[3] = Rat(5, 100)
  /\ QGt(ret.values[3][3], PointEstimate.intrinsicValue)

---------------------------------------------------------------------------
(* analysis/dcf.ts: estimateGrowthRate on its own.                         *)

\* Free-cash-flow histories, most recent year first: one and two years,
\* +10%, -10%, 0% and +20% a year, a negative end, a negative start, and
\* seven years doubling every year inside the five-year window.
FcfSeries ==
  { <<Int2Rat(100)>>,
    <<Int2Rat(110), Int2Rat(100)>>,
    <<Int2Rat(121), Int2Rat(110), Int2Rat(100)>>,
    <<Int2Rat(81), Int2Rat(90), Int2Rat(100)>>,
    <<Int2Rat(100), Int2Rat(100), Int2Rat(100)>>,
    <<Int2Rat(144), Int2Rat(120), Int2Rat(100)>>,
    <<Int2Rat(-20), Int2Rat(10), Int2Rat(30)>>,
    <<Int2Rat(30), Int2Rat(10), Int2Rat(-20)>>,
    <<Int2Rat(32), Int2Rat(16), Int2Rat(8), Int2Rat(4), Int2Rat(2),
      Int2Rat(1), Int2Rat(50)>> }

\* Three years of revenue: +20%, 0%, -10% a year, and starting from nothing.
RevenueSeries ==
  { <<Int2Rat(144), Int2Rat(120), Int2Rat(100)>>,
    <<Int2Rat(100), Int2Rat(100), Int2Rat(100)>>,
    <<Int2Rat(81), Int2Rat(90), Int2Rat(100)>>,
    <<Int2Rat(100), Int2Rat(50), Zero>> }

\* Three years of EPS: +5%, +25%, -10% a year, and a loss now.
EpsSeries ==
  { <<Rat(441, 100), Rat(42, 10), Int2Rat(4)>>,
    <<Rat(25, 4), Int2Rat(5), Int2Rat(4)>>,
    <<Rat(324, 100), Rat(36, 10), Int2Rat(4)>>,
    <<Int2Rat(-1), Int2Rat(1), Int2Rat(2)>> }

EstimateCompanies ==
  {StatementsOf(f, r, e, Int2Rat(10), Zero, Zero) :
     f \in FcfSeries, r \in RevenueSeries, e \in EpsSeries}
  \cup {StatementsOf(f, <<Int2Rat(120), Int2Rat(100)>>,
                     <<Int2Rat(5), Int2Rat(4)>>, Int2Rat(10), Zero, Zero) :
          f \in FcfSeries}

InitEstimate ==
  /\ phase = "called"
  /\ ret = Null
  /\ last = Null
  /\ \E c \in EstimateCompanies :
       args = [fn |-> "estimateGrowthRate", financials |-> c]

CallEstimateGrowthRate ==
  /\ phase = "called"
  /\ args.fn = "estimateGrowthRate"
  /\ ret' = estimateGrowthRate(args.financials)
  /\ phase' = "returned"
  /\ UNCHANGED <<args, last>>

NextEstimate == CallEstimateGrowthRate

SpecEstimate == InitEstimate /\ [][NextEstimate]_vars

---------------------------------------------------------------------------
(* Claims about the growth estimate.                                       *)

\* The CAGR of a field as a candidate: only with >= 3 years of history and
\* strictly positive start and end values.
CandidateOf(statements, field) ==
  LET n == Min2(Len(statements) - 1, 5)
  IN  IF Len(statements) >= 3 /\ RGt(statements[n + 1][field], Zero)
         /\ RGt(statements[1][field], Zero)
      THEN << CHOOSE r \in RateGrid :
                RPow(RAdd(One, r), n) =
                  RDiv(statements[1][field], statements[n + 1][field]) >>
      ELSE <<>>

\* The candidates of the call, in ascending order.
Candidates ==
  SortAscending(CandidateOf(args.financials.cashFlowStatements, "freeCashFlow")
                \o CandidateOf(args.financials.incomeStatements, "revenue")
                \o CandidateOf(args.financials.incomeStatements, "eps"))

\* The median of one, two or three numbers in ascending order.
MedianOf(sorted) ==
  IF Len(sorted) = 2 THEN RDiv(RAdd(sorted[1], sorted[2]), Int2Rat(2))
  ELSE sorted[(Len(sorted) + 1) \div 2]

\* sorted[Math.floor(length / 2)]: the upper of two numbers.
UpperMedianOf(sorted) == sorted[(Len(sorted) \div 2) + 1]

\* C24 as stated: the estimate is the median of the candidates (for 1, 2 or
\* 3 candidates) multiplied by 0.8, and 0.05 when there is no candidate.
C24_Original ==
  Returned("estimateGrowthRate") =>
    ret = IF Candidates = <<>> THEN Rat(5, 100)
          ELSE RMul(MedianOf(Candidates), Rat(8, 10))

\* What holds of C24: the estimate is 0.8 times the middle candidate of one
\* or three and the higher candidate of two, and 0.05 without a candidate.
C24_EstimateFromUpperMedian ==
  Returned("estimateGrowthRate") =>
    ret = IF Candidates = <<>> THEN Rat(5, 100)
          ELSE RMul(UpperMedianOf(Candidates), Rat(8, 10))

\* A company with two candidates, FCF -10% and revenue 0% a year, is given
\* the estimate 0, not 0.8 times the median -5%.
C24_UpperOfTwoCandidates ==
  /\ Returned("estimateGrowthRate")
  /\ Candidates = <<Rat(-1, 10), Zero>>
  /\ ret = Zero

\* C25 as stated: the growth rate returned by estimateGrowthRate is never
\* greater than the median candidate growth rate it was derived from,
\* including when that median is negative.
C25_Original ==
  (Returned("estimateGrowthRate") /\ Candidates # <<>>) =>
    RLe(ret, UpperMedianOf(Candidates))

\* What holds of C25: the estimate is no greater than a median >= 0 and
\* no smaller than a median <= 0.
C25_HaircutShrinksTowardsZero ==
  (Returned("estimateGrowthRate") /\ Candidates # <<>>) =>
    LET median == UpperMedianOf(Candidates)
    IN  /\ RGe(median, Zero) => RLe(ret, median) /\ RGe(ret, Zero)
        /\ RLe(median, Zero) => RGe(ret, median) /\ RLe(ret, Zero)

\* A company whose only candidate is an FCF decline of 10% a year is given
\* the estimate -8%.
C25_NegativeMedianRaised ==
  /\ Returned("estimateGrowthRate")
  /\ Candidates = <<Rat(-1, 10)>>
  /\ ret = Rat(-8, 100)

---------------------------------------------------------------------------
(* analysis/moat-scorer.ts: calculateStability on its own.                 *)

MaxStabilityValues == 3

\* Margins and returns on equity of a year.
StabilityValues == {Rat(-1, 10), Zero, Rat(1, 10), Rat(1, 5), Rat(2, 5)}

InitStability ==
  /\ phase = "called"
  /\ ret = Null
  /\ last = Null
  /\ \E k \in 0..MaxStabilityValues :
       \E values \in [1..k -> StabilityValues] :
         args = [fn |-> "calculateStability", values |-> values]

CallCalculateStability ==
  /\ phase = "called"
  /\ args.fn = "calculateStability"
  /\ ret' = calculateStability(args.values)
  /\ phase' = "returned"
  /\ UNCHANGED <<args, last>>

NextStability == CallCalculateStability

SpecStability == InitStability /\ [][NextStability]_vars

---------------------------------------------------------------------------
(* Claims about the stability metric.                                      *)

MeanOf(values) == RDiv(SeqSum(values), Int2Rat(Len(values)))

\* Square of the coefficient of variation: population variance over the
\* squared mean.
SquaredVariation(values) ==
  RDiv(RDiv(SeqSum([i \in 1..Len(values) |->
                      RMul(RSub(values[i], MeanOf(values)),
                           RSub(values[i], MeanOf(values)))]),
            Int2Rat(Len(values))),
       RMul(MeanOf(values), MeanOf(values)))

\* 1 - deviation / |mean| clamped to [0, 1], as the record of the squared
\* deviation ratio it is kept as.
ClampedStability(values) ==
  IF RGe(SquaredVariation(values), One) THEN [q |-> One]
  ELSE [q |-> SquaredVariation(values)]

\* C26 as stated: the stability metric equals 1 - (population standard
\* deviation / |mean|) clamped to [0, 1], and is 1 both when there are
\* fewer than two data points and when the mean of the values is zero.
C26_Original ==
  Returned("calculateStability") =>
    IF Len(args.values) < 2 THEN ret = StabilityOne
    ELSE IF MeanOf(args.values) = Zero THEN ret = StabilityOne
    ELSE ret = ClampedStability(args.values)

\* What holds of C26: as stated, except that the metric is 0 when the mean
\* of two or more values is zero.
C26_StabilityZeroForZeroMean ==
  Returned("calculateStability") =>
    IF Len(args.values) < 2 THEN ret = StabilityOne
    ELSE IF MeanOf(args.values) = Zero THEN ret = StabilityZero
    ELSE ret = ClampedStability(args.values)

\* Two years with a margin of 0 have stability 0.
C26_ZeroMeanUnstable ==
  /\ Returned("calculateStability")
  /\ args.values = <<Zero, Zero>>
  /\ ret = StabilityZero

---------------------------------------------------------------------------
(* analysis/moat-scorer.ts: analyzeDurability on its own, for every        *)
(* overall score in steps of one half.                                     *)

OverallScores == {Rat(k, 2) : k \in 2..10}

InitDurability ==
  /\ phase = "called"
  /\ ret = Null
  /\ last = Null
  /\ \E h \in Histories \cup LongHistories, s \in OverallScores :
       args = [fn |-> "analyzeDurability",
               financials |-> FinancialsOf(h),
               ratios |-> calculateFinancialRatios(FinancialsOf(h), Null),
               overallScore |-> s]

CallAnalyzeDurability ==
  /\ phase = "called"
  /\ args.fn = "analyzeDurability"
  /\ ret' = analyzeDurability(args.financials, args.ratios, args.overallScore)
  /\ phase' = "returned"
  /\ UNCHANGED <<args, last>>

NextDurability == CallAnalyzeDurability

SpecDurability == InitDurability /\ [][NextDurability]_vars

---------------------------------------------------------------------------
(* Claims about the durability assessment.                                 *)

\* C27: the durability score returned by analyzeDurability lies in [1, 5]
\* and the returned assessment agrees with that score: 'weak' iff
\* score < 2.5, 'moderate' iff 2.5 <= score < 4, 'strong' iff score >= 4.
C27_AssessmentAgreesWithScore ==
  Returned("analyzeDurability") =>
    /\ RGe(ret.score, One) /\ RLe(ret.score, Int2Rat(5))
    /\ ret.assessment \in {"weak", "moderate", "strong"}
    /\ (ret.assessment = "weak") <=> RLt(ret.score, Rat(5, 2))
    /\ (ret.assessment = "moderate") <=>
         (RGe(ret.score, Rat(5, 2)) /\ RLt(ret.score, Int2Rat(4)))
    /\ (ret.assessment = "strong") <=> RGe(ret.score, Int2Rat(4))

\* Witness of C27: an overall score of 5 with both bonuses is returned as
\* 5 and 'strong'.
C27_Witness ==
  /\ Returned("analyzeDurability")
  /\ args.overallScore = Int2Rat(5)
  /\ ret.factors[1] = "Consistently high ROE indicates durable advantage"
  /\ ret.factors[2] = "Consistently positive free cash flow"
  /\ ret.score = Int2Rat(5)
  /\ ret.assessment = "strong"

\* The free cash flows of the call, and the number of positive ones.
FcfYears == Len(args.financials.cashFlowStatements)

PositiveFcfYears ==
  Cardinality({i \in 1..FcfYears :
                 RGt(args.financials.cashFlowStatements[i].freeCashFlow, Zero)})

\* The ROE adjustment that the first factor of the result reports.
RoeAdjustmentReported ==
  IF ret.factors[1] = "Consistently high ROE indicates durable advantage"
  THEN One
  ELSE IF ret.factors[1] = "Moderately consistent ROE" THEN Zero
  ELSE Rat(-1, 2)

\* The returned score is the overall score with the reported ROE adjustment
\* and the given free-cash-flow adjustment, clamped to [1, 5].
ScoreAdjustedBy(fcfAdjustment) ==
  ret.score =
    RMax(One,
         RMin(Int2Rat(5),
              RAdd(RAdd(args.overallScore, RoeAdjustmentReported),
                   fcfAdjustment)))

\* C28 as stated: the durability score is increased by 0.5 whenever free
\* cash flow is positive in every available year (for any number of
\* available years, including 1 or 2), decreased by 0.5 whenever it is
\* positive in fewer than 80% of the available years, and left unchanged
\* otherwise.
C28_Original ==
  (Returned("analyzeDurability") /\ FcfYears > 0) =>
    ScoreAdjustedBy(IF PositiveFcfYears = FcfYears THEN Rat(1, 2)
                    ELSE IF 10 * PositiveFcfYears < 8 * FcfYears
                    THEN Rat(-1, 2)
                    ELSE Zero)

\* C28: the durability score is increased by 0.5 whenever free cash flow
\* is positive in every available year and at least 3 years are available,
\* decreased by 0.5 whenever it is positive in fewer than 80% of the
\* available years, and left unchanged otherwise (also when it is positive
\* in each of only 1 or 2 years, or no year is available).
C28_FcfBonusNeedsThreeYears ==
  Returned("analyzeDurability") =>
    ScoreAdjustedBy(IF PositiveFcfYears = FcfYears /\ FcfYears >= 3
                    THEN Rat(1, 2)
                    ELSE IF 10 * PositiveFcfYears < 8 * FcfYears
                    THEN Rat(-1, 2)
                    ELSE Zero)

\* Witness of C28: two years of positive free cash flow leave an overall
\* score of 3 with a moderately consistent ROE unchanged.
C28_Witness ==
  /\ Returned("analyzeDurability")
  /\ FcfYears = 2
  /\ PositiveFcfYears = 2
  /\ args.overallScore = Int2Rat(3)
  /\ ret.factors[1] = "Moderately consistent ROE"
  /\ ret.factors[2] = "Generally positive free cash flow"
  /\ ret.score = Int2Rat(3)

---------------------------------------------------------------------------
(* tools/report.ts: the analysis step of a report computes the financial   *)
(* ratios and then the Graham valuation of the same statements and quote.  *)

\* Current assets, and current liabilities (Null: not present), in millions
\* of dollars.
CurrentAssetValues ==
  {Zero, Int2Rat(1), Int2Rat(2), Int2Rat(150), Int2Rat(200), Int2Rat(300)}

CurrentLiabilityValues == {Null, Zero, Int2Rat(100)}

\* The statements of a history with the given current assets and
\* liabilities in every balance sheet, one million shares, and only the k
\* most recent cash-flow statements.
ReportStatementsOf(history, currentAssets, currentLiabilities, k) ==
  [incomeStatements |-> FinancialsOf(history).incomeStatements,
   balanceSheets |->
     [i \in 1..Len(history) |->
        [totalEquity |-> history[i].totalEquity,
         bookValuePerShare |-> history[i].totalEquity,
         currentAssets |-> currentAssets,
         currentLiabilities |-> currentLiabilities]],
   cashFlowStatements |->
     SubSeq(FinancialsOf(history).cashFlowStatements, 1,
            Min2(k, Len(history)))]

ReportQuote ==
  [marketCap |-> Int2Rat(5000), dividendYield |-> Rat(2, 100),
   pe |-> Int2Rat(10), pb |-> One]

\* config.analysis.riskFreeRate
RiskFreeRate == Rat(4, 100)

InitReport ==
  /\ phase = "called"
  /\ ret = Null
  /\ last = Null
  /\ \E h \in {x \in Histories : Len(x) <= 2},
        ca \in CurrentAssetValues, cl \in CurrentLiabilityValues,
        k \in {0, 2} :
       args = [fn |-> "calculateFinancialRatios",
               financials |-> ReportStatementsOf(h, ca, cl, k),
               quote |-> ReportQuote, bondYield |-> RiskFreeRate]

\* The Graham valuation that follows the ratios in the report; the ratios
\* are kept in last.
ThenCalculateGrahamValuation ==
  /\ phase = "returned"
  /\ args.fn = "calculateFinancialRatios"
  /\ "bondYield" \in DOMAIN args
  /\ last' = [args |-> args, ret |-> ret]
  /\ ret' = calculateGrahamValuation(args.financials, args.quote,
                                     args.bondYield)
  /\ args' = [args EXCEPT !.fn = "calculateGrahamValuation"]
  /\ UNCHANGED phase

NextReport == CallCalculateFinancialRatios \/ ThenCalculateGrahamValuation

SpecReport == InitReport /\ [][NextReport]_vars

---------------------------------------------------------------------------
(* Claims about the current ratio in the report.                           *)

\* Both analyses of the report are done.
BothAnalysed ==
  /\ Returned("calculateGrahamValuation")
  /\ last # Null

LatestBalance == args.financials.balanceSheets[1]

\* C29 as stated: Graham defensive criterion 2 (Strong Financial Condition)
\* passes exactly when the currentRatio that calculateFinancialRatios
\* reports for the same financials is >= 2.0, including when
\* currentLiabilities is 0 or missing.
C29_Original ==
  BothAnalysed =>
    (ret.defensiveCriteria[2].passed
       <=> RGe(last.ret.currentRatio, Int2Rat(2)))

\* What holds: with positive current liabilities and all three kinds of
\* statement present, the two agree.
C29_AgreeForPositiveLiabilities ==
  (/\ BothAnalysed
   /\ Len(args.financials.cashFlowStatements) > 0
   /\ ~IsNull(LatestBalance.currentLiabilities)
   /\ RGt(LatestBalance.currentLiabilities, Zero)) =>
    (ret.defensiveCriteria[2].passed
       <=> RGe(last.ret.currentRatio, Int2Rat(2)))

\* With current liabilities of 0 and current assets of 2 million dollars
\* the criterion passes although the reported current ratio is 0.
C29_PassesWithRatioZero ==
  /\ BothAnalysed
  /\ Len(args.financials.cashFlowStatements) > 0
  /\ LatestBalance.currentLiabilities = Zero
  /\ LatestBalance.currentAssets = Int2Rat(2)
  /\ ret.defensiveCriteria[2].name = "Strong Financial Condition"
  /\ ret.defensiveCriteria[2].passed
  /\ last.ret.currentRatio = Zero

---------------------------------------------------------------------------
(* tools/watchlist.ts and config/index.ts: two 'add' requests handled by   *)
(* manageWatchlist on one event loop.  A request runs without interruption *)
(* from loadWatchlist to the await of the provider quote in addStock, and  *)
(* again from the settling of the quote to its return.  Here               *)
(*   phase[p]        is the position of request p,                         *)
(*   args            holds the tickers requested and settings.maxStocks,   *)
(*   ret[p]          is the message request p returned,                    *)
(*   last.file       is the stocks of the persisted watchlist file,        *)
(*   last.loaded[p]  is the stocks of the watchlist object of request p.   *)

Tickers == {"AAPL", "KO", "MSFT"}

\* settings.maxStocks of the persisted watchlist
MaxStocksValues == {1, 2}

Requests == {1, 2}

\* The tickers of a list of stocks.
TickersOf(stocks) == {stocks[i].ticker : i \in 1..Len(stocks)}

\* Watchlists saved earlier: no ticker twice.
SavedWatchlists ==
  {<<>>} \cup {<<[ticker |-> t, name |-> "quoted"]>> : t \in Tickers}
  \cup {w \in {<<[ticker |-> t, name |-> "quoted"],
                   [ticker |-> u, name |-> u]>> : t \in Tickers, u \in Tickers} :
          w[1].ticker # w[2].ticker}

InitWatchlist ==
  /\ phase = [p \in Requests |-> "called"]
  /\ ret = [p \in Requests |-> "pending"]
  /\ \E t1 \in Tickers, t2 \in Tickers, m \in MaxStocksValues :
       args = [fn |-> "manageWatchlist", action |-> "add",
               ticker |-> <<t1, t2>>, maxStocks |-> m]
  /\ \E file \in SavedWatchlists :
       /\ Len(file) <= args.maxStocks
       /\ last = [file |-> file, loaded |-> [p \in Requests |-> <<>>]]

\* manageWatchlist up to the await in addStock: load the watchlist, return
\* if the ticker is there or the list is full, otherwise ask for the quote.
StartAdd(p) ==
  /\ phase[p] = "called"
  /\ LET watchlist == last.file
     IN  /\ last' = [last EXCEPT !.loaded[p] = watchlist]
         /\ IF args.ticker[p] \in TickersOf(watchlist)
            THEN /\ ret' = [ret EXCEPT ![p] = "already in your watchlist"]
                 /\ phase' = [phase EXCEPT ![p] = "returned"]
            ELSE IF Len(watchlist) >= args.maxStocks
            THEN /\ ret' = [ret EXCEPT ![p] = "Watchlist is full"]
                 /\ phase' = [phase EXCEPT ![p] = "returned"]
            ELSE /\ ret' = ret
                 /\ phase' = [phase EXCEPT ![p] = "awaiting"]
  /\ UNCHANGED args

\* addStock after the await: the quote arrived or failed (the name is then
\* the ticker); push the stock to the request's own watchlist object and
\* save that object.
FinishAdd(p) ==
  /\ phase[p] = "awaiting"
  /\ \E quoted \in BOOLEAN :
       LET newStock == [ticker |-> args.ticker[p],
                        name |-> IF quoted THEN "quoted" ELSE args.ticker[p]]
           stocks == Append(last.loaded[p], newStock)
       IN  last' = [file |-> stocks,
                    loaded |-> [last.loaded EXCEPT ![p] = stocks]]
  /\ ret' = [ret EXCEPT ![p] = "Added"]
  /\ phase' = [phase EXCEPT ![p] = "returned"]
  /\ UNCHANGED args

NextWatchlist == \E p \in Requests : StartAdd(p) \/ FinishAdd(p)

SpecWatchlist == InitWatchlist /\ [][NextWatchlist]_vars

---------------------------------------------------------------------------
(* Claims about concurrent additions to the watchlist.                     *)

DifferentTickers == args.ticker[1] # args.ticker[2]

BothReturned == \A p \in Requests : phase[p] = "returned"

NoTickerTwice(stocks) ==
  \A i \in 1..Len(stocks), j \in 1..Len(stocks) :
    stocks[i].ticker = stocks[j].ticker => i = j

\* C30 as stated: with two 'add' requests for different tickers, every add
\* that reports success is in the persisted watchlist once both have
\* completed, and the persisted watchlist never holds the same ticker twice
\* or more than maxStocks entries.
C30_Original ==
  DifferentTickers =>
    /\ NoTickerTwice(last.file)
    /\ Len(last.file) <= args.maxStocks
    /\ BothReturned =>
         \A p \in Requests :
           ret[p] = "Added" => args.ticker[p] \in TickersOf(last.file)

\* What holds: the persisted watchlist never holds a ticker twice or more
\* than maxStocks entries, and the add that saved last is in it.
C30_NeverTwiceNorOverfull ==
  /\ NoTickerTwice(last.file)
  /\ Len(last.file) <= args.maxStocks
  /\ (BothReturned /\ \E p \in Requests : ret[p] = "Added") =>
       \E p \in Requests :
         ret[p] = "Added" /\ args.ticker[p] \in TickersOf(last.file)

\* Both requests reported success for different tickers and the persisted
\* watchlist holds only one of the two.
C30_SuccessfulAddLost ==
  /\ DifferentTickers
  /\ BothReturned
  /\ \A p \in Requests : ret[p] = "Added"
  /\ \E p \in Requests : args.ticker[p] \notin TickersOf(last.file)

==========================================================================
